---- MODULE Spec2Model ----
(***************************************************************************)
(* Route optimization subsystem of the dispatch backend:                   *)
(*   backend/geocode_service.py   address geocoder (in-memory and Amazon)  *)
(*   backend/route_service.py     matrix providers and the open-route      *)
(*                                solver                                   *)
(*   backend/location_service.py  driver location store                    *)
(*   backend/order_store.py       order store                              *)
(*   backend/routers/routes.py    POST /routes/optimize                    *)
(*                                                                         *)
(* Text is a sequence of one-character strings.  Coordinates are integers  *)
(* in micro-degrees; a distance or duration is a pair of whole units and   *)
(* thousandths.  An Optional value is <<>> (None) or <<v>>.                *)
(***************************************************************************)
EXTENDS Integers, Sequences, FiniteSets, TLC

VARIABLES
    overrides,      \* InMemoryAddressGeocoder._overrides: normalized -> GeocodePoint
    failures,       \* InMemoryAddressGeocoder._failures: normalized -> TRUE
    lastGeo,        \* the last geocode() call observed: its input, result, backend use
    orders,         \* InMemoryOrderStore.items, in insertion order; the index is the id
    locations,      \* InMemoryDriverLocationStore.items: <<org, driver>> -> record
    resp,           \* the last /routes/optimize exchange: request, trace and response
    solveIn,        \* the input of a direct solve_open_route call
    solveOut,       \* the result of that call
    environ,        \* os.environ: the variables the backend selection reads
    probe,          \* the last direct call observed of a backend getter, of
                    \* calculate_matrix or of an order endpoint: its input
                    \* and its result
    loop,           \* the event loop of the server: who holds its thread and
                    \* how far each request in flight has come
    billing         \* the billing store and the identity repository, the
                    \* invitation handlers between their reads and their
                    \* writes, and the last answer of one

vars ==
    <<overrides, failures, lastGeo, orders, locations, resp, solveIn, solveOut,
      environ, probe, loop, billing>>

geoVars == <<overrides, failures, lastGeo>>
storeVars == <<orders, locations>>
solveVars == <<solveIn, solveOut>>
envVars == <<environ, probe>>

----------------------------------------------------------------------------
(* Optional values *)

None == <<>>
Some(x) == <<x>>

\* Nothing observed yet: no geocode() call, no /routes/optimize exchange, no
\* direct solve_open_route call.
NoGeo == [kind |-> "none", address |-> <<>>, point |-> None, backend |-> <<>>]

NoResp == [phase |-> "idle"]

NoSolve == [phase |-> "idle"]

NoProbe == [call |-> "none"]

\* No request in flight: the thread of the event loop is idle.
NoLoop ==
    [thread |-> "idle", optimize |-> "none", solver |-> "none", limit |-> 0,
     elapsed |-> 0, other |-> "none"]

NoAnswer == [call |-> "none"]

NoBilling ==
    [backend |-> "in-memory", subscriptions |-> [x \in {} |-> TRUE], invitations |-> <<>>,
     users |-> [x \in {} |-> TRUE], flights |-> <<>>, answer |-> NoAnswer]

----------------------------------------------------------------------------
(* Text helpers: str.strip, str.split, " ".join, str.lower *)

IsSpace(c) == c = " "

RECURSIVE LStrip(_)
LStrip(s) ==
    IF s # <<>> /\ IsSpace(Head(s)) THEN LStrip(Tail(s)) ELSE s

RECURSIVE RStrip(_)
RStrip(s) ==
    IF s # <<>> /\ IsSpace(s[Len(s)]) THEN RStrip(SubSeq(s, 1, Len(s) - 1)) ELSE s

Strip(s) == RStrip(LStrip(s))

RECURSIVE WordLen(_)
WordLen(s) ==
    IF s = <<>> \/ IsSpace(Head(s)) THEN 0 ELSE 1 + WordLen(Tail(s))

RECURSIVE Split(_)
Split(s) ==
    LET t == LStrip(s)
        n == WordLen(t)
    IN  IF t = <<>> THEN <<>>
        ELSE <<SubSeq(t, 1, n)>> \o Split(SubSeq(t, n + 1, Len(t)))

RECURSIVE JoinSpace(_)
JoinSpace(words) ==
    IF words = <<>> THEN <<>>
    ELSE IF Len(words) = 1 THEN words[1]
    ELSE words[1] \o <<" ">> \o JoinSpace(Tail(words))

UpperLetters ==
    <<"A", "B", "C", "D", "E", "F", "G", "H", "I", "J", "K", "L", "M",
      "N", "O", "P", "Q", "R", "S", "T", "U", "V", "W", "X", "Y", "Z">>

LowerLetters ==
    <<"a", "b", "c", "d", "e", "f", "g", "h", "i", "j", "k", "l", "m",
      "n", "o", "p", "q", "r", "s", "t", "u", "v", "w", "x", "y", "z">>

LowerChar(c) ==
    IF \E i \in 1..26 : UpperLetters[i] = c
    THEN LowerLetters[CHOOSE i \in 1..26 : UpperLetters[i] = c]
    ELSE c

Lower(s) == [i \in 1..Len(s) |-> LowerChar(s[i])]

----------------------------------------------------------------------------
(* geocode_service.py: pure helpers *)

_normalize_address(address) == Lower(JoinSpace(Split(Strip(address))))

Digits == <<"0", "1", "2", "3", "4", "5", "6", "7", "8", "9">>

IsDigit(c) == \E i \in 1..10 : Digits[i] = c

DigitVal(c) == (CHOOSE i \in 1..10 : Digits[i] = c) - 1

AllDigits(s) == s # <<>> /\ \A i \in 1..Len(s) : IsDigit(s[i])

\* -?\d+(?:\.\d+)?
IsNumberText(s) ==
    LET body == IF s # <<>> /\ Head(s) = "-" THEN Tail(s) ELSE s
        dots == {i \in 1..Len(body) : body[i] = "."}
    IN  IF dots = {} THEN AllDigits(body)
        ELSE /\ Cardinality(dots) = 1
             /\ LET d == CHOOSE i \in dots : TRUE
                IN  /\ AllDigits(SubSeq(body, 1, d - 1))
                    /\ AllDigits(SubSeq(body, d + 1, Len(body)))

RECURSIVE DigitsValue(_)
DigitsValue(s) ==
    IF s = <<>> THEN 0
    ELSE DigitsValue(SubSeq(s, 1, Len(s) - 1)) * 10 + DigitVal(s[Len(s)])

RECURSIVE Pow10(_)
Pow10(n) == IF n = 0 THEN 1 ELSE 10 * Pow10(n - 1)

\* float(text) for a text IsNumberText accepts, in micro-units (six fractional
\* digits are kept).
FloatMicro(s) ==
    LET neg == Head(s) = "-"
        body == IF neg THEN Tail(s) ELSE s
        dots == {i \in 1..Len(body) : body[i] = "."}
        d == IF dots = {} THEN Len(body) + 1 ELSE CHOOSE i \in dots : TRUE
        whole == SubSeq(body, 1, d - 1)
        frac == SubSeq(body, d + 1, Len(body))
        kept == SubSeq(frac, 1, IF Len(frac) < 6 THEN Len(frac) ELSE 6)
        mag == DigitsValue(whole) * Pow10(6)
               + DigitsValue(kept) * Pow10(6 - Len(kept))
    IN  IF neg THEN 0 - mag ELSE mag

_is_valid_lat_lng(lat, lng) ==
    /\ -90000000 <= lat /\ lat <= 90000000
    /\ -180000000 <= lng /\ lng <= 180000000

GeocodePoint(lat, lng, source) == [lat |-> lat, lng |-> lng, source |-> source]

\* _LAT_LNG_RE: ^\s*(-?\d+(?:\.\d+)?)\s*,\s*(-?\d+(?:\.\d+)?)\s*$
\* The groups, or None when the text does not match.
LatLngMatch(address) ==
    LET commas == {i \in 1..Len(address) : address[i] = ","}
    IN  IF Cardinality(commas) # 1 THEN None
        ELSE LET c == CHOOSE i \in commas : TRUE
                 g1 == Strip(SubSeq(address, 1, c - 1))
                 g2 == Strip(SubSeq(address, c + 1, Len(address)))
             IN  IF IsNumberText(g1) /\ IsNumberText(g2)
                 THEN Some(<<g1, g2>>)
                 ELSE None

_parse_inline_lat_lng(address) ==
    LET match == LatLngMatch(address)
    IN  IF match = None THEN None
        ELSE LET lat == FloatMicro(match[1][1])
                 lng == FloatMicro(match[1][2])
             IN  IF ~_is_valid_lat_lng(lat, lng) THEN None
                 ELSE Some(GeocodePoint(lat, lng, "inline-latlng"))

----------------------------------------------------------------------------
(* The texts and coordinates the model works with *)

AddrAB == <<"a", " ", "b">>
AddrABVariant == <<" ", "A", " ", " ", "b">>
AddrX == <<"x">>
AddrBlank == <<" ">>
AddrXPadded == <<" ", "x">>
AddrInline == <<"1", ",", "2">>
AddrInlineSpaced == <<" ", "-", "1", ".", "5", " ", ",", "2">>
AddrBadInline == <<"9", "1", ",", "2">>

Coord(lat, lng) == [lat |-> lat, lng |-> lng]

StartP0 == Coord(37770000, -122420000)
StopP1 == Coord(37781000, -122404000)
StopP2 == Coord(37768000, -122431000)
StopP3 == Coord(37759000, -122414000)
StopP4 == Coord(37790000, -122400000)
LocL1 == Coord(37775000, -122418000)
LocL2 == Coord(37760000, -122440000)
OverrideP == Coord(37800000, -122410000)
InlineP == Coord(1000000, 2000000)
InlineNegP == Coord(-1500000, 2000000)
HashAB == Coord(43288261, -85868942)
HashX == Coord(28760164, -82947106)
HashBadInline == Coord(44522070, -100257407)

\* _hash_to_point: sha256 of the normalized text mapped into the rectangle
\* lat 24.5 + seed/0xFFFFFFFF*24.0, lng -124.8 + seed/0xFFFFFFFF*58.5,
\* evaluated for the normalized texts of the model.
_hash_to_point(normalized_address) ==
    LET c == CASE normalized_address = <<"a", " ", "b">> -> HashAB
               [] normalized_address = <<"x">> -> HashX
               [] normalized_address = <<"9", "1", ",", "2">> -> HashBadInline
    IN  GeocodePoint(c.lat, c.lng, "hash-dev")

----------------------------------------------------------------------------
(* Distances and durations: a float is held as whole units and thousandths *)

Num(w, f) == [w |-> w, f |-> f]

Zero == Num(0, 0)

\* a + b
NumAdd(a, b) == Num(a.w + b.w + (a.f + b.f) \div 1000, (a.f + b.f) % 1000)

\* The hundredths of round(x, 2): to the nearest, a tie to the even one.
RoundedHundredths(f) ==
    f \div 10 + (IF f % 10 > 5 \/ (f % 10 = 5 /\ (f \div 10) % 2 = 1) THEN 1 ELSE 0)

\* round(x, 2)
Round2(x) ==
    Num(x.w + RoundedHundredths(x.f) \div 100, (RoundedHundredths(x.f) % 100) * 10)

----------------------------------------------------------------------------
(* geocode_service.py: InMemoryAddressGeocoder *)

DictSet(d, k, v) == [x \in DOMAIN d \cup {k} |-> IF x = k THEN v ELSE d[x]]

DictPop(d, k) == [x \in DOMAIN d \ {k} |-> d[x]]

EmptyDict == [x \in {} |-> TRUE]

\* geocode() returns "point"; "backend" lists what it consulted on the way
\* ("hash": _hash_to_point, "service": search_place_index_for_text).
GeocodeReturn(point, backend) == [point |-> point, backend |-> backend]

\* A variant of geocode that looks the stripped text up, not its normal form.
GeocodeByStrippedText(address) ==
    IF address = <<>> \/ Strip(address) = <<>> THEN GeocodeReturn(None, <<>>)
    ELSE IF _parse_inline_lat_lng(address) # None
    THEN GeocodeReturn(_parse_inline_lat_lng(address), <<>>)
    ELSE IF Strip(address) \in DOMAIN failures
    THEN GeocodeReturn(None, <<>>)
    ELSE IF Strip(address) \in DOMAIN overrides
    THEN GeocodeReturn(Some(overrides[Strip(address)]), <<>>)
    ELSE GeocodeReturn(Some(_hash_to_point(_normalize_address(address))), <<"hash">>)

\* A variant of geocode that consults the failures before the inline parse.
GeocodeFailuresFirst(address) ==
    IF address = <<>> \/ Strip(address) = <<>> THEN GeocodeReturn(None, <<>>)
    ELSE IF _normalize_address(address) \in DOMAIN failures
    THEN GeocodeReturn(None, <<>>)
    ELSE IF _parse_inline_lat_lng(address) # None
    THEN GeocodeReturn(_parse_inline_lat_lng(address), <<>>)
    ELSE IF _normalize_address(address) \in DOMAIN overrides
    THEN GeocodeReturn(Some(overrides[_normalize_address(address)]), <<>>)
    ELSE GeocodeReturn(Some(_hash_to_point(_normalize_address(address))), <<"hash">>)

InMemoryAddressGeocoder_geocode(address) ==
    IF address = <<>> \/ Strip(address) = <<>> THEN GeocodeReturn(None, <<>>)
    ELSE LET inline == _parse_inline_lat_lng(address)
         IN  IF inline # None THEN GeocodeReturn(inline, <<>>)
             ELSE LET normalized == _normalize_address(address)
                  IN  IF normalized \in DOMAIN failures
                      THEN GeocodeReturn(None, <<>>)
                      ELSE IF normalized \in DOMAIN overrides
                      THEN GeocodeReturn(Some(overrides[normalized]), <<>>)
                      ELSE GeocodeReturn(Some(_hash_to_point(normalized)), <<"hash">>)

set_override(address, lat, lng) ==
    LET normalized == _normalize_address(address)
    IN  /\ overrides' = DictSet(overrides, normalized,
                                GeocodePoint(lat, lng, "in-memory-override"))
        /\ failures' = DictPop(failures, normalized)

\* A variant of set_failure that leaves the override in place.
SetFailureKeepOverride(address) ==
    /\ failures' = DictSet(failures, _normalize_address(address), TRUE)
    /\ overrides' = overrides

set_failure(address) ==
    LET normalized == _normalize_address(address)
    IN  /\ failures' = DictSet(failures, normalized, TRUE)
        /\ overrides' = DictPop(overrides, normalized)

reset ==
    /\ overrides' = EmptyDict
    /\ failures' = EmptyDict

----------------------------------------------------------------------------
(* geocode_service.py: AmazonLocationAddressGeocoder *)

\* What search_place_index_for_text may answer: no result, a point as
\* [lng, lat], a point of the wrong length, a point outside the valid ranges.
PlaceResults ==
    { <<>>,
      <<[Point |-> <<OverrideP.lng, OverrideP.lat>>]>>,
      <<[Point |-> <<OverrideP.lng>>]>>,
      <<[Point |-> <<OverrideP.lat, OverrideP.lng>>]>> }

AmazonLocationAddressGeocoder_geocode(address, results) ==
    LET inline == _parse_inline_lat_lng(address)
    IN  IF inline # None THEN GeocodeReturn(inline, <<>>)
        ELSE IF results = <<>> THEN GeocodeReturn(None, <<"service">>)
        ELSE LET point == results[1].Point
             IN  IF Len(point) # 2 THEN GeocodeReturn(None, <<"service">>)
                 ELSE LET lng == point[1]
                          lat == point[2]
                      IN  IF ~_is_valid_lat_lng(lat, lng)
                          THEN GeocodeReturn(None, <<"service">>)
                          ELSE GeocodeReturn(
                                   Some(GeocodePoint(lat, lng, "amazon-location")),
                                   <<"service">>)

----------------------------------------------------------------------------
(* route_service.py: solve_open_route *)

\* A Python list is a function on 0..n-1 where the code indexes it (matrices,
\* matrix rows) and a sequence elsewhere.
ListLen(l) == Cardinality(DOMAIN l)

List0(seq) == [i \in 0..(Len(seq) - 1) |-> seq[i + 1]]

very_large_cost == 1000000000

\* int(x) of a non-negative float.
IntOf(x) == x.w

\* A variant of the cost matrix whose virtual end node is left free to leave.
SolverCostMatrixFreeEnd(duration_seconds) ==
    [i \in 0..ListLen(duration_seconds) |->
        [j \in 0..ListLen(duration_seconds) |->
            IF i = ListLen(duration_seconds) \/ j = ListLen(duration_seconds) THEN 0
            ELSE IntOf(duration_seconds[i][j])]]

\* pywrapcp.RoutingIndexManager(node_count + 1, 1, [start_index], [end_node])
RoutingIndexManager(num_nodes, num_vehicles, starts, ends) ==
    [num_nodes |-> num_nodes, num_vehicles |-> num_vehicles, starts |-> starts,
     ends |-> ends]

\* The (node_count + 1) x (node_count + 1) cost matrix handed to the solver.
SolverCostMatrix(duration_seconds) ==
    LET node_count == ListLen(duration_seconds)
        end_node == node_count
    IN  [i \in 0..node_count |->
            [j \in 0..node_count |->
                IF i = end_node THEN (IF j = end_node THEN 0 ELSE very_large_cost)
                ELSE IF j = end_node THEN 0
                ELSE IntOf(duration_seconds[i][j])]]

RECURSIVE PermsOf(_)
PermsOf(S) ==
    IF S = {} THEN {<<>>}
    ELSE UNION {{<<x>> \o p : p \in PermsOf(S \ {x})} : x \in S}

\* NextVar values of a route: route[k] -> route[k+1], the last node -> end_node.
NextVarOf(route, end_node) ==
    [node \in {route[k] : k \in 1..Len(route)} |->
        LET k == CHOOSE k \in 1..Len(route) : route[k] = node
        IN  IF k = Len(route) THEN end_node ELSE route[k + 1]]

\* What routing.SolveWithParameters may return for one vehicle from start_index
\* to end_node with every node mandatory: None, or the NextVar values of a
\* path that leaves start_index, visits every other real node once and ends
\* at end_node.  The search is a time-limited heuristic, so any such path may
\* come back, whatever the costs.
SolveWithParameters(node_count, start_index, end_node) ==
    {None} \cup
    {Some(NextVarOf(<<start_index>> \o p, end_node)) :
        p \in PermsOf((0..(node_count - 1)) \ {start_index})}

\* A variant of the reconstruction loop that follows NextVar before recording.
RECURSIVE WalkRouteSkipFirst(_, _, _, _)
WalkRouteSkipFirst(next, current, end_node, sequence) ==
    IF current = end_node THEN sequence
    ELSE WalkRouteSkipFirst(next, next[current], end_node,
                            Append(sequence, next[current]))

\* The reconstruction loop: while not IsEnd(current): record the node unless
\* it is end_node, then follow NextVar.
RECURSIVE WalkRoute(_, _, _, _)
WalkRoute(next, current, end_node, sequence) ==
    IF current = end_node THEN sequence
    ELSE WalkRoute(next, next[current], end_node,
                   IF current # end_node THEN Append(sequence, current) ELSE sequence)

Returned(value) == [phase |-> "returned", value |-> value]

Raised(error) == [phase |-> "raised", error |-> error]

\* solution is what SolveWithParameters returned for this call.
solve_open_route(duration_seconds, start_index, solution) ==
    LET node_count == ListLen(duration_seconds)
        end_node == node_count
    IN  IF node_count = 0 THEN Returned(<<>>)
        ELSE IF node_count = 1 THEN Returned(<<0>>)
        ELSE IF solution = None
        THEN Raised("Unable to solve route optimization problem")
        ELSE Returned(WalkRoute(solution[1], start_index, end_node, <<>>))

\* The solutions the solver may hand to a call of solve_open_route.
SolutionsFor(duration_seconds, start_index) ==
    IF ListLen(duration_seconds) < 2 THEN {None}
    ELSE SolveWithParameters(ListLen(duration_seconds), start_index,
                             ListLen(duration_seconds))

----------------------------------------------------------------------------
(* route_service.py: matrix providers *)

\* haversine_meters with radius 6371000.0, evaluated for the coordinates of
\* the model.
haversine_meters(a_lat, a_lng, b_lat, b_lng) ==
    LET p == {Coord(a_lat, a_lng), Coord(b_lat, b_lng)}
    IN  IF Cardinality(p) = 1 THEN Zero
        ELSE CASE
          p = {StartP0, StopP1} -> Num(1863, 762)
       [] p = {StartP0, StopP2} -> Num(992, 125)
       [] p = {StartP0, StopP3} -> Num(1332, 11)
       [] p = {StartP0, StopP4} -> Num(2834, 648)
       [] p = {StartP0, LocL1} -> Num(583, 103)
       [] p = {StartP0, LocL2} -> Num(2080, 191)
       [] p = {StartP0, OverrideP} -> Num(3449, 659)
       [] p = {StartP0, InlineP} -> Num(12882259, 726)
       [] p = {StartP0, HashAB} -> Num(3123586, 957)
       [] p = {StartP0, HashX} -> Num(3774054, 754)
       [] p = {StartP0, HashBadInline} -> Num(1993913, 167)
       [] p = {StopP1, StopP2} -> Num(2778, 675)
       [] p = {StopP1, StopP3} -> Num(2599, 406)
       [] p = {StopP1, StopP4} -> Num(1060, 693)
       [] p = {StopP1, LocL1} -> Num(1399, 663)
       [] p = {StopP1, LocL2} -> Num(3932, 587)
       [] p = {StopP1, OverrideP} -> Num(2177, 497)
       [] p = {StopP1, InlineP} -> Num(12880481, 665)
       [] p = {StopP1, HashAB} -> Num(3121814, 861)
       [] p = {StopP1, HashX} -> Num(3772726, 246)
       [] p = {StopP1, HashBadInline} -> Num(1992089, 492)
       [] p = {StopP2, StopP3} -> Num(1798, 520)
       [] p = {StopP2, StopP4} -> Num(3661, 567)
       [] p = {StopP2, LocL1} -> Num(1382, 559)
       [] p = {StopP2, LocL2} -> Num(1190, 467)
       [] p = {StopP2, OverrideP} -> Num(4008, 350)
       [] p = {StopP2, InlineP} -> Num(12883234, 831)
       [] p = {StopP2, HashAB} -> Num(3124563, 917)
       [] p = {StopP2, HashX} -> Num(3775006, 250)
       [] p = {StopP2, HashBadInline} -> Num(1994866, 52)
       [] p = {StopP3, StopP4} -> Num(3660, 80)
       [] p = {StopP3, LocL1} -> Num(1813, 529)
       [] p = {StopP3, LocL2} -> Num(2288, 347)
       [] p = {StopP3, OverrideP} -> Num(4572, 525)
       [] p = {StopP3, InlineP} -> Num(12882265, 471)
       [] p = {StopP3, HashAB} -> Num(3123579, 181)
       [] p = {StopP3, HashX} -> Num(3773453, 652)
       [] p = {StopP3, HashBadInline} -> Num(1994048, 72)
       [] p = {StopP4, LocL1} -> Num(2298, 761)
       [] p = {StopP4, LocL2} -> Num(4846, 399)
       [] p = {StopP4, OverrideP} -> Num(1417, 213)
       [] p = {StopP4, InlineP} -> Num(12879759, 297)
       [] p = {StopP4, HashAB} -> Num(3121100, 888)
       [] p = {StopP4, HashX} -> Num(3772437, 216)
       [] p = {StopP4, HashBadInline} -> Num(1991295, 763)
       [] p = {LocL1, LocL2} -> Num(2553, 730)
       [] p = {LocL1, OverrideP} -> Num(2867, 388)
       [] p = {LocL1, InlineP} -> Num(12881876, 226)
       [] p = {LocL1, HashAB} -> Num(3123208, 80)
       [] p = {LocL1, HashX} -> Num(3773913, 337)
       [] p = {LocL1, HashBadInline} -> Num(1993489, 68)
       [] p = {LocL2, OverrideP} -> Num(5170, 521)
       [] p = {LocL2, InlineP} -> Num(12884315, 818)
       [] p = {LocL2, HashAB} -> Num(3125639, 676)
       [] p = {LocL2, HashX} -> Num(3775741, 828)
       [] p = {LocL2, HashBadInline} -> Num(1995990, 149)
       [] p = {OverrideP, InlineP} -> Num(12880119, 857)
       [] p = {OverrideP, HashAB} -> Num(3121476, 710)
       [] p = {OverrideP, HashX} -> Num(3773383, 111)
       [] p = {OverrideP, HashBadInline} -> Num(1991523, 643)
       [] p = {InlineP, HashAB} -> Num(9758818, 793)
       [] p = {InlineP, HashX} -> Num(9461543, 928)
       [] p = {InlineP, HashBadInline} -> Num(10896685, 226)
       [] p = {HashAB, HashX} -> Num(1636386, 265)
       [] p = {HashAB, HashBadInline} -> Num(1159328, 363)
       [] p = {HashX, HashBadInline} -> Num(2326024, 462)

\* _SPEED_METERS_PER_SECOND, in centimetres per second.
SpeedCentimetersPerSecond == 1389

\* The thousandths left over when (100 * meters.w) % 1389 whole units remain.
SpeedRemainder(meters) ==
    (((meters.w * 100) % SpeedCentimetersPerSecond) * 1000 + meters.f * 100)
        \div SpeedCentimetersPerSecond

\* meters / _SPEED_METERS_PER_SECOND
DivideBySpeed(meters) ==
    Num((meters.w * 100) \div SpeedCentimetersPerSecond + SpeedRemainder(meters) \div 1000,
        SpeedRemainder(meters) % 1000)

RouteMatrixResult(source, distance_meters, duration_seconds) ==
    [source |-> source, distance_meters |-> distance_meters,
     duration_seconds |-> duration_seconds]

\* points is a list of [lng, lat].
InMemoryRouteMatrixProvider_calculate_matrix(points) ==
    LET n == ListLen(points)
        meters(i, j) == haversine_meters(points[i][2], points[i][1],
                                         points[j][2], points[j][1])
    IN  RouteMatrixResult(
            "haversine-dev",
            [i \in 0..(n - 1) |-> [j \in 0..(n - 1) |->
                IF i = j THEN Zero ELSE meters(i, j)]],
            [i \in 0..(n - 1) |-> [j \in 0..(n - 1) |->
                IF i = j THEN Zero ELSE DivideBySpeed(meters(i, j))]])

\* The RouteMatrix of a calculate_route_matrix response for these departure
\* and destination positions: one row per departure, one cell per
\* destination; the cells in errored carry "Error", the others the road
\* distance (here twice the great-circle distance) and the travel time (here
\* at 10 m/s).
RoadDistance(meters) == NumAdd(meters, meters)

RoadDuration(meters) == Num(meters.w \div 10, ((meters.w % 10) * 1000 + meters.f) \div 10)

RouteMatrixResponse(points, errored) ==
    LET n == ListLen(points)
        meters(i, j) == haversine_meters(points[i][2], points[i][1],
                                         points[j][2], points[j][1])
    IN  [i \in 0..(n - 1) |-> [j \in 0..(n - 1) |->
            IF <<i, j>> \in errored
            THEN [Error |-> "RouteNotFound"]
            ELSE [Distance |-> RoadDistance(meters(i, j)),
                  DurationSeconds |-> RoadDuration(RoadDistance(meters(i, j)))]]]

\* 1e9
SentinelCost == Num(1000000000, 0)

\* float(cell.get(key, 0.0))
CellGet(cell, key) == IF key \in DOMAIN cell THEN cell[key] ELSE Zero

\* A variant of calculate_matrix that puts the sentinel in the distance
\* matrix only.
CalculateMatrixSentinelDistanceOnly(matrix) ==
    RouteMatrixResult(
        "amazon-location",
        [i \in DOMAIN matrix |-> [j \in DOMAIN matrix[i] |->
            IF "Error" \in DOMAIN matrix[i][j] THEN SentinelCost
            ELSE CellGet(matrix[i][j], "Distance")]],
        [i \in DOMAIN matrix |-> [j \in DOMAIN matrix[i] |->
            CellGet(matrix[i][j], "DurationSeconds")]])

\* matrix is response.get("RouteMatrix", []).
AmazonLocationRouteMatrixProvider_calculate_matrix(matrix) ==
    RouteMatrixResult(
        "amazon-location",
        [i \in DOMAIN matrix |-> [j \in DOMAIN matrix[i] |->
            IF "Error" \in DOMAIN matrix[i][j] THEN SentinelCost
            ELSE CellGet(matrix[i][j], "Distance")]],
        [i \in DOMAIN matrix |-> [j \in DOMAIN matrix[i] |->
            IF "Error" \in DOMAIN matrix[i][j] THEN SentinelCost
            ELSE CellGet(matrix[i][j], "DurationSeconds")]])

----------------------------------------------------------------------------
(* order_store.py: InMemoryOrderStore; routers/orders.py *)

\* items maps (org_id, id) to the order; the sequence keeps the dict's
\* insertion order and an order's id is its position (uuid4: never reused).
\* created_at is the rank of the creation instant, which is the position too.
Order(id, org_id, delivery, status, assigned_to) ==
    [id |-> id, org_id |-> org_id, delivery |-> delivery, status |-> status,
     assigned_to |-> assigned_to, external_order_id |-> None, source |-> None,
     created_at |-> id]

\* A variant of get_order that looks the id up in every organization.
GetOrderAnyOrg(org_id, order_id) ==
    IF order_id \in 1..Len(orders) THEN Some(orders[order_id]) ELSE None

get_order(org_id, order_id) ==
    IF order_id \in 1..Len(orders) /\ orders[order_id].org_id = org_id
    THEN Some(orders[order_id])
    ELSE None

upsert_order(order) ==
    IF order.id \in 1..Len(orders)
    THEN [orders EXCEPT ![order.id] = order]
    ELSE Append(orders, order)

list_orders(org_id) == SelectSeq(orders, LAMBDA order : order.org_id = org_id)

list_assigned_orders(org_id, driver_id, include_terminal) ==
    LET values == SelectSeq(list_orders(org_id),
                            LAMBDA order : order.assigned_to = Some(driver_id))
    IN  IF include_terminal THEN values
        ELSE SelectSeq(values, LAMBDA order : order.status \notin {"Delivered", "Failed"})

\* A variant of get_assigned_orders_for_driver that keeps terminal orders.
GetAssignedIncludingTerminal(org_id, driver_id) ==
    list_assigned_orders(org_id, driver_id, TRUE)

get_assigned_orders_for_driver(org_id, driver_id) ==
    list_assigned_orders(org_id, driver_id, FALSE)

_require_tenant_order(order_id, org_id) == get_order(org_id, order_id)

MaxOrders == 3

\* POST /orders/ by an Admin or Dispatcher of org_id.
create_order(org_id, delivery) ==
    /\ resp = NoResp
    /\ Len(orders) < MaxOrders
    /\ orders' = upsert_order(Order(Len(orders) + 1, org_id, delivery, "Created", None))
    /\ UNCHANGED <<geoVars, locations, resp, solveVars, envVars, loop, billing>>

\* POST /orders/{order_id}/assign by an Admin or Dispatcher of org_id; 404 and
\* no change when the order is not one of org_id.
assign_order(org_id, order_id, driver_id) ==
    /\ resp = NoResp
    /\ LET order == _require_tenant_order(order_id, org_id)
       IN  IF order = None THEN UNCHANGED orders
           ELSE orders' = upsert_order(
                    [order[1] EXCEPT !.assigned_to = Some(driver_id),
                                     !.status = "Assigned"])
    /\ UNCHANGED <<geoVars, locations, resp, solveVars, envVars, loop, billing>>

----------------------------------------------------------------------------
(* auth.py: the role gate; routers/orders.py: the order endpoints *)

ROLE_ADMIN == <<"A", "d", "m", "i", "n">>

ROLE_DISPATCHER == <<"D", "i", "s", "p", "a", "t", "c", "h", "e", "r">>

ROLE_DRIVER == <<"D", "r", "i", "v", "e", "r">>

\* The user _claims_to_user builds from the token's claims.
User(sub, org_id, groups) == [sub |-> sub, org_id |-> org_id, groups |-> groups]

_normalized_role_set(roles) ==
    {Lower(Strip(role)) : role \in {r \in roles : Strip(r) # <<>>}}

\* TRUE when the dependency returns the user, FALSE when it raises 403.
require_roles(allowed, user) ==
    _normalized_role_set(user.groups) \cap _normalized_role_set(allowed) # {}

_has_any_role(user, roles) == user.groups \cap roles # {}

OrderStatus == {"Created", "Assigned", "PickedUp", "EnRoute", "Delivered", "Failed"}

_STATUS_TRANSITIONS ==
    [Created |-> {"Assigned", "Failed"},
     Assigned |-> {"PickedUp", "EnRoute", "Delivered", "Failed"},
     PickedUp |-> {"EnRoute", "Delivered", "Failed"},
     EnRoute |-> {"Delivered", "Failed"},
     Delivered |-> {},
     Failed |-> {"Assigned"}]

\* _STATUS_TRANSITIONS.get(current_status, set())
AllowedAfter(current_status) ==
    IF current_status \in DOMAIN _STATUS_TRANSITIONS
    THEN _STATUS_TRANSITIONS[current_status]
    ELSE {}

\* A variant of _validate_transition that consults the table only.
ValidateTransitionTableOnly(current_status, next_status) ==
    next_status \in AllowedAfter(current_status)

\* TRUE when _validate_transition returns, FALSE when it raises 400.
_validate_transition(current_status, next_status) ==
    ~(next_status \notin AllowedAfter(current_status) /\ next_status # current_status)

\* What a handler leaves behind: the status of the response, the items of
\* the store and the orders in the response body.
Answer(status_code, store, returned) ==
    [status_code |-> status_code, store |-> store, returned |-> returned]

Range(list) == {list[k] : k \in DOMAIN list}

\* An order id text that is empty or blank.
BlankId == 0

RECURSIVE UniqueIds(_, _)
UniqueIds(order_ids, unique_ids) ==
    IF order_ids = <<>> THEN unique_ids
    ELSE UniqueIds(Tail(order_ids),
                   IF Head(order_ids) = BlankId \/ Head(order_ids) \in Range(unique_ids)
                   THEN unique_ids
                   ELSE Append(unique_ids, Head(order_ids)))

\* The list of unique ids; it raises 400 when the list is empty.
_unique_order_ids(order_ids) == UniqueIds(order_ids, <<>>)

\* body.driver_id.strip() for the driver ids of the model.
DriverIdStrip(driver_id) ==
    CASE driver_id = " " -> ""
      [] driver_id = " driver-2 " -> "driver-2"
      [] OTHER -> driver_id

\* POST /orders/
CreateOrderAnswer(user, delivery) ==
    IF ~require_roles({ROLE_ADMIN, ROLE_DISPATCHER}, user)
    THEN Answer(403, orders, <<>>)
    ELSE Answer(200,
                upsert_order(Order(Len(orders) + 1, user.org_id, delivery, "Created", None)),
                <<Order(Len(orders) + 1, user.org_id, delivery, "Created", None)>>)

\* GET /orders/ without filters (the response is sorted by created_at, the
\* order of creation).
ListOrdersAnswer(user) ==
    IF ~require_roles({ROLE_ADMIN, ROLE_DISPATCHER}, user)
    THEN Answer(403, orders, <<>>)
    ELSE Answer(200, orders, list_orders(user.org_id))

\* The handler from its upsert on, order being the order it changed.
Saved(order) == Answer(200, upsert_order(order), <<order>>)

\* POST /orders/{order_id}/assign
AssignOrderAnswer(user, order_id, driver_id) ==
    IF ~require_roles({ROLE_ADMIN, ROLE_DISPATCHER}, user)
    THEN Answer(403, orders, <<>>)
    ELSE IF _require_tenant_order(order_id, user.org_id) = None
    THEN Answer(404, orders, <<>>)
    ELSE Saved([_require_tenant_order(order_id, user.org_id)[1]
                    EXCEPT !.assigned_to = Some(driver_id), !.status = "Assigned"])

\* POST /orders/{order_id}/unassign
unassign_order(user, order_id) ==
    IF ~require_roles({ROLE_ADMIN, ROLE_DISPATCHER}, user)
    THEN Answer(403, orders, <<>>)
    ELSE IF _require_tenant_order(order_id, user.org_id) = None
    THEN Answer(404, orders, <<>>)
    ELSE Saved([_require_tenant_order(order_id, user.org_id)[1]
                    EXCEPT !.assigned_to = None, !.status = "Created"])

\* The ids the loop of a bulk handler passes before _require_tenant_order
\* raises; all of them when it never raises.
FoundPrefix(ids, org_id) ==
    LET missing == {k \in 1..Len(ids) : get_order(org_id, ids[k]) = None}
    IN  IF missing = {} THEN ids
        ELSE SubSeq(ids, 1, (CHOOSE k \in missing : \A m \in missing : k <= m) - 1)

\* The items after the loop has upserted the orders of updated_ids.
BulkStore(updated_ids, assigned_to, status) ==
    [k \in 1..Len(orders) |->
        IF k \in Range(updated_ids)
        THEN [orders[k] EXCEPT !.assigned_to = assigned_to, !.status = status]
        ELSE orders[k]]

\* The loop and the response of a bulk handler; the orders before the one
\* that is not found stay changed.
BulkMutation(ids, updated_ids, assigned_to, status) ==
    IF Len(updated_ids) < Len(ids)
    THEN Answer(404, BulkStore(updated_ids, assigned_to, status), <<>>)
    ELSE Answer(200, BulkStore(updated_ids, assigned_to, status),
                [k \in 1..Len(updated_ids) |->
                    BulkStore(updated_ids, assigned_to, status)[updated_ids[k]]])

\* POST /orders/bulk-assign
bulk_assign_orders(user, order_ids, driver_id) ==
    IF ~require_roles({ROLE_ADMIN, ROLE_DISPATCHER}, user)
    THEN Answer(403, orders, <<>>)
    ELSE IF _unique_order_ids(order_ids) = <<>> \/ DriverIdStrip(driver_id) = ""
    THEN Answer(400, orders, <<>>)
    ELSE BulkMutation(_unique_order_ids(order_ids),
                      FoundPrefix(_unique_order_ids(order_ids), user.org_id),
                      Some(DriverIdStrip(driver_id)), "Assigned")

\* POST /orders/bulk-unassign
bulk_unassign_orders(user, order_ids) ==
    IF ~require_roles({ROLE_ADMIN, ROLE_DISPATCHER}, user)
    THEN Answer(403, orders, <<>>)
    ELSE IF _unique_order_ids(order_ids) = <<>>
    THEN Answer(400, orders, <<>>)
    ELSE BulkMutation(_unique_order_ids(order_ids),
                      FoundPrefix(_unique_order_ids(order_ids), user.org_id),
                      None, "Created")

\* if _has_any_role(user, {ROLE_DRIVER}) and not _has_any_role(user,
\* {ROLE_ADMIN, ROLE_DISPATCHER})
DriverOnly(user) ==
    _has_any_role(user, {ROLE_DRIVER}) /\ ~_has_any_role(user, {ROLE_ADMIN, ROLE_DISPATCHER})

\* POST /orders/{order_id}/status
update_order_status(user, order_id, status) ==
    IF ~require_roles({ROLE_ADMIN, ROLE_DISPATCHER, ROLE_DRIVER}, user)
    THEN Answer(403, orders, <<>>)
    ELSE IF _require_tenant_order(order_id, user.org_id) = None
    THEN Answer(404, orders, <<>>)
    ELSE IF DriverOnly(user)
            /\ _require_tenant_order(order_id, user.org_id)[1].assigned_to # Some(user.sub)
    THEN Answer(403, orders, <<>>)
    ELSE IF ~_validate_transition(
                 _require_tenant_order(order_id, user.org_id)[1].status, status)
    THEN Answer(400, orders, <<>>)
    ELSE Saved([_require_tenant_order(order_id, user.org_id)[1] EXCEPT !.status = status])

\* GET /orders/driver/inbox
driver_inbox(user) ==
    IF ~require_roles({ROLE_DRIVER}, user)
    THEN Answer(403, orders, <<>>)
    ELSE Answer(200, orders, list_assigned_orders(user.org_id, user.sub, TRUE))

\* GET /orders/{order_id}
GetOrderAnswer(user, order_id) ==
    IF ~require_roles({ROLE_ADMIN, ROLE_DISPATCHER, ROLE_DRIVER}, user)
    THEN Answer(403, orders, <<>>)
    ELSE IF _require_tenant_order(order_id, user.org_id) = None
    THEN Answer(404, orders, <<>>)
    ELSE IF /\ ROLE_DRIVER \in user.groups
            /\ ROLE_ADMIN \notin user.groups
            /\ ROLE_DISPATCHER \notin user.groups
            /\ _require_tenant_order(order_id, user.org_id)[1].assigned_to # Some(user.sub)
    THEN Answer(404, orders, <<>>)
    ELSE Answer(200, orders, <<_require_tenant_order(order_id, user.org_id)[1]>>)

----------------------------------------------------------------------------
(* routers/billing.py: the orders webhook *)

\* One order of the payload.
WebhookOrderInput(external_order_id, delivery) ==
    [external_order_id |-> external_order_id, delivery |-> delivery]

\* find_order_by_external_id over the items in store; the position of the
\* order, 0 when there is none.
find_order_by_external_id(store, org_id, source, external_order_id) ==
    LET found == {k \in 1..Len(store) :
                     /\ store[k].org_id = org_id
                     /\ store[k].external_order_id = Some(external_order_id)
                     /\ (IF store[k].source = None THEN "external"
                         ELSE store[k].source[1]) = source}
    IN  IF found = {} THEN 0 ELSE CHOOSE k \in found : \A m \in found : k <= m

\* A variant of the loop body that stores every incoming order as a new one.
IngestAlwaysCreate(store, org_id, source, incoming, existing) ==
    Append(store,
           [Order(Len(store) + 1, org_id, incoming.delivery, "Created", None)
               EXCEPT !.external_order_id = Some(incoming.external_order_id),
                      !.source = Some(source)])

\* One pass of the loop over payload.orders: the store after it.
IngestOne(store, org_id, source, incoming, existing) ==
    IF existing = 0
    THEN Append(store,
                [Order(Len(store) + 1, org_id, incoming.delivery, "Created", None)
                    EXCEPT !.external_order_id = Some(incoming.external_order_id),
                           !.source = Some(source)])
    ELSE [store EXCEPT ![existing] =
              [@ EXCEPT !.delivery = incoming.delivery,
                        !.external_order_id = Some(incoming.external_order_id),
                        !.source = Some(source)]]

RECURSIVE IngestOrders(_, _, _, _)
IngestOrders(store, org_id, source, incoming) ==
    IF incoming = <<>> THEN store
    ELSE IngestOrders(
             IngestOne(store, org_id, source, Head(incoming),
                       find_order_by_external_id(store, org_id, source,
                                                 Head(incoming).external_order_id)),
             org_id, source, Tail(incoming))

\* What one pass of the loop adds to order_ids and to the created / updated
\* tally.
IngestOutcome(store, org_id, existing) ==
    IF existing = 0
    THEN [id |-> Len(store) + 1, org_id |-> org_id, outcome |-> "created"]
    ELSE [id |-> store[existing].id, org_id |-> store[existing].org_id,
          outcome |-> "updated"]

RECURSIVE IngestReport(_, _, _, _)
IngestReport(store, org_id, source, incoming) ==
    IF incoming = <<>> THEN <<>>
    ELSE <<IngestOutcome(store, org_id,
                         find_order_by_external_id(store, org_id, source,
                                                   Head(incoming).external_order_id))>>
         \o IngestReport(
                IngestOne(store, org_id, source, Head(incoming),
                          find_order_by_external_id(store, org_id, source,
                                                    Head(incoming).external_order_id)),
                org_id, source, Tail(incoming))

\* POST /webhooks/orders with a valid token and signature; allowed_org_id is
\* ORDERS_WEBHOOK_ALLOWED_ORG_ID, stripped.
order_ingest_webhook(payload, allowed_org_id) ==
    IF \E i, j \in 1..Len(payload.orders) :
           i # j /\ payload.orders[i].external_order_id = payload.orders[j].external_order_id
    THEN Answer(400, orders, <<>>)
    ELSE IF allowed_org_id = "" THEN Answer(503, orders, <<>>)
    ELSE IF payload.org_id # allowed_org_id THEN Answer(403, orders, <<>>)
    ELSE Answer(200, IngestOrders(orders, payload.org_id, payload.source, payload.orders),
                IngestReport(orders, payload.org_id, payload.source, payload.orders))

----------------------------------------------------------------------------
(* billing_service.py, routers/billing.py: seats and invitations *)

SeatRole == {ROLE_DISPATCHER, ROLE_DRIVER}

InvitationStatus == {"Pending", "Accepted", "Cancelled"}

SeatSubscriptionRecord(org_id, dispatcher_seat_limit, driver_seat_limit) ==
    [org_id |-> org_id, dispatcher_seat_limit |-> dispatcher_seat_limit,
     driver_seat_limit |-> driver_seat_limit]

\* invitation_id is the position of the invitation in the store (uuid4: never
\* reused).
BillingInvitationRecord(org_id, invitation_id, user_id, role, status) ==
    [org_id |-> org_id, invitation_id |-> invitation_id, user_id |-> user_id,
     role |-> role, status |-> status]

\* roles is held as the set of the names in the list.
UserRecord(org_id, user_id, roles, is_active) ==
    [org_id |-> org_id, user_id |-> user_id, roles |-> roles, is_active |-> is_active]

_normalized_roles(roles) ==
    {Lower(Strip(role)) : role \in {r \in roles : Strip(r) # <<>>}}

_user_has_role(user, role) == Lower(role) \in _normalized_roles(user.roles)

SeatUsage(dispatcher_active, driver_active, dispatcher_pending, driver_pending) ==
    [dispatcher_active |-> dispatcher_active, driver_active |-> driver_active,
     dispatcher_pending |-> dispatcher_pending, driver_pending |-> driver_pending]

\* The billing store and the identity repository, in-memory or DynamoDB:
\* subscriptions by org_id, invitations in insertion order, users by
\* (org_id, user_id).
BillingStores(subscriptions, invitations, users) ==
    [subscriptions |-> subscriptions, invitations |-> invitations, users |-> users]

default_subscription(org_id) == SeatSubscriptionRecord(org_id, 0, 0)

get_or_default_subscription(store, org_id) ==
    IF org_id \in DOMAIN store.subscriptions THEN store.subscriptions[org_id]
    ELSE default_subscription(org_id)

\* list_users(org_id), filtered as calculate_seat_usage filters it.
ActiveWithRole(store, org_id, role) ==
    {k \in DOMAIN store.users :
        /\ k[1] = org_id
        /\ store.users[k].is_active
        /\ _user_has_role(store.users[k], role)}

\* list_invitations(org_id, status=PENDING), as positions.
PendingInvitations(store, org_id) ==
    {k \in 1..Len(store.invitations) :
        /\ store.invitations[k].org_id = org_id
        /\ store.invitations[k].status = "Pending"}

PendingWithRole(store, org_id, role) ==
    {k \in PendingInvitations(store, org_id) : store.invitations[k].role = role}

calculate_seat_usage(store, org_id) ==
    SeatUsage(Cardinality(ActiveWithRole(store, org_id, ROLE_DISPATCHER)),
              Cardinality(ActiveWithRole(store, org_id, ROLE_DRIVER)),
              Cardinality(PendingWithRole(store, org_id, ROLE_DISPATCHER)),
              Cardinality(PendingWithRole(store, org_id, ROLE_DRIVER)))

\* A variant of the invitation check that counts the active users only.
EnsureSeatLimitActiveOnly(role, subscription, usage) ==
    IF role = ROLE_DISPATCHER
    THEN IF usage.dispatcher_active >= subscription.dispatcher_seat_limit
         THEN Some("Dispatcher seat limit reached") ELSE None
    ELSE IF usage.driver_active >= subscription.driver_seat_limit
         THEN Some("Driver seat limit reached") ELSE None

\* None when the check passes, the message of SeatLimitExceededError when it
\* raises.
ensure_seat_limit_for_invitation(role, subscription, usage) ==
    IF role = ROLE_DISPATCHER
    THEN IF usage.dispatcher_active + usage.dispatcher_pending
                >= subscription.dispatcher_seat_limit
         THEN Some("Dispatcher seat limit reached") ELSE None
    ELSE IF usage.driver_active + usage.driver_pending >= subscription.driver_seat_limit
         THEN Some("Driver seat limit reached") ELSE None

ensure_seat_limit_for_activation(role, subscription, usage) ==
    IF role = ROLE_DISPATCHER
    THEN IF usage.dispatcher_active >= subscription.dispatcher_seat_limit
         THEN Some("Dispatcher seat limit reached for activation") ELSE None
    ELSE IF usage.driver_active >= subscription.driver_seat_limit
         THEN Some("Driver seat limit reached for activation") ELSE None

new_invitation(org_id, invitation_id, user_id, role) ==
    BillingInvitationRecord(org_id, invitation_id, user_id, role, "Pending")

\* The first pending invitation of the user for the role, or None.
find_pending_invitation(store, org_id, user_id, role) ==
    LET found == {k \in PendingInvitations(store, org_id) :
                     /\ store.invitations[k].user_id = user_id
                     /\ store.invitations[k].role = role}
    IN  IF found = {} THEN None
        ELSE Some(store.invitations[CHOOSE k \in found : \A m \in found : k <= m])

get_invitation(store, org_id, invitation_id) ==
    IF /\ invitation_id \in 1..Len(store.invitations)
       /\ store.invitations[invitation_id].org_id = org_id
    THEN Some(store.invitations[invitation_id])
    ELSE None

\* upsert_invitation: the key is (org_id, invitation_id).
upsert_invitation(store, invitation) ==
    IF invitation.invitation_id \in 1..Len(store.invitations)
    THEN [store EXCEPT !.invitations[invitation.invitation_id] = invitation]
    ELSE [store EXCEPT !.invitations = Append(@, invitation)]

get_user(store, org_id, user_id) ==
    IF <<org_id, user_id>> \in DOMAIN store.users
    THEN Some(store.users[<<org_id, user_id>>])
    ELSE None

upsert_user(store, user) ==
    [store EXCEPT !.users = DictSet(@, <<user.org_id, user.user_id>>, user)]

\* What a handler has decided once its reads and checks are done: to refuse
\* with an HTTPException, or to go on to its writes (status_code 200).
Decision(status_code, detail, read) ==
    [status_code |-> status_code, detail |-> detail, read |-> read]

\* create_invitation up to the seat check: the values it reads from the
\* stores and what it decides from them.
CreateInvitationReads(store, user, payload) ==
    [subscription |-> get_or_default_subscription(store, user.org_id),
     usage |-> calculate_seat_usage(store, user.org_id),
     existing |-> find_pending_invitation(store, user.org_id, payload.user_id,
                                          payload.role)]

CreateInvitationDecision(read, payload) ==
    IF read.existing # None
    THEN Decision(409, "Pending invitation already exists for this user and role", read)
    ELSE IF ensure_seat_limit_for_invitation(payload.role, read.subscription,
                                             read.usage) # None
    THEN Decision(409, ensure_seat_limit_for_invitation(payload.role, read.subscription,
                                                        read.usage)[1], read)
    ELSE Decision(200, "", read)

\* create_invitation from new_invitation on: the invitation is put.
CreateInvitationWrite(store, user, payload) ==
    upsert_invitation(store,
        new_invitation(user.org_id, Len(store.invitations) + 1, payload.user_id,
                       payload.role))

\* activate_invitation up to the seat check.
ActivateInvitationReads(store, user, invitation_id) ==
    [invitation |-> get_invitation(store, user.org_id, invitation_id),
     subscription |-> get_or_default_subscription(store, user.org_id),
     usage |-> calculate_seat_usage(store, user.org_id)]

\* A variant of the decision that does not look at the invitation's status.
ActivateAnyStatus(read) ==
    IF read.invitation = None THEN Decision(404, "Invitation not found", read)
    ELSE IF ensure_seat_limit_for_activation(read.invitation[1].role, read.subscription,
                                             read.usage) # None
    THEN Decision(409, ensure_seat_limit_for_activation(
                           read.invitation[1].role, read.subscription, read.usage)[1],
                  read)
    ELSE Decision(200, "", read)

ActivateInvitationDecision(read) ==
    IF read.invitation = None THEN Decision(404, "Invitation not found", read)
    ELSE IF read.invitation[1].status # "Pending"
    THEN Decision(409, "Invitation is not pending", read)
    ELSE IF ensure_seat_limit_for_activation(read.invitation[1].role, read.subscription,
                                             read.usage) # None
    THEN Decision(409, ensure_seat_limit_for_activation(
                           read.invitation[1].role, read.subscription, read.usage)[1],
                  read)
    ELSE Decision(200, "", read)

\* roles = list(existing_user.roles) if existing_user else []; the role of
\* the invitation is appended when it is not among them.
ActivatedRoles(existing_user, role) ==
    IF existing_user = None THEN {role} ELSE existing_user[1].roles \cup {role}

\* activate_invitation from get_user on: the user is put with the role and
\* is_active, then the invitation the handler read is put as Accepted.
ActivateInvitationWrite(store, user, invitation) ==
    upsert_invitation(
        upsert_user(store,
            UserRecord(user.org_id, invitation.user_id,
                       ActivatedRoles(get_user(store, user.org_id, invitation.user_id),
                                      invitation.role),
                       TRUE)),
        [invitation EXCEPT !.status = "Accepted"])

\* cancel_invitation up to its checks.
CancelInvitationReads(store, user, invitation_id) ==
    [invitation |-> get_invitation(store, user.org_id, invitation_id)]

CancelInvitationDecision(read) ==
    IF read.invitation = None THEN Decision(404, "Invitation not found", read)
    ELSE IF read.invitation[1].status # "Pending"
    THEN Decision(409, "Only pending invitations can be cancelled", read)
    ELSE Decision(200, "", read)

\* cancel_invitation's write: the invitation the handler read is put as
\* Cancelled.
CancelInvitationWrite(store, user, invitation) ==
    upsert_invitation(store, [invitation EXCEPT !.status = "Cancelled"])

----------------------------------------------------------------------------
(* location_service.py: InMemoryDriverLocationStore; routers/drivers.py *)

DriverLocationRecord(org_id, driver_id, lat, lng) ==
    [org_id |-> org_id, driver_id |-> driver_id, lat |-> lat, lng |-> lng]

upsert_location(location) ==
    DictSet(locations, <<location.org_id, location.driver_id>>, location)

\* A variant of list_locations that forgets the organization.
ListLocationsAnyOrg(org_id) == {locations[k] : k \in DOMAIN locations}

list_locations(org_id) ==
    {locations[k] : k \in {x \in DOMAIN locations : x[1] = org_id}}

\* POST /drivers/location by the Driver sub of org_id.
upsert_driver_location(org_id, sub, lat, lng) ==
    /\ resp = NoResp
    /\ locations' = upsert_location(DriverLocationRecord(org_id, sub, lat, lng))
    /\ UNCHANGED <<geoVars, orders, resp, solveVars, envVars, loop, billing>>

----------------------------------------------------------------------------
(* routers/routes.py *)

RouteStopInput(order_id, lat, lng, address) ==
    [order_id |-> order_id, lat |-> lat, lng |-> lng, address |-> address]

RouteOptimizedStop(sequence, stop, distance, duration) ==
    [sequence |-> sequence, order_id |-> stop.order_id, lat |-> stop.lat,
     lng |-> stop.lng, address |-> stop.address,
     distance_from_previous_meters |-> distance,
     duration_from_previous_seconds |-> duration]

HTTPException(status_code, detail, order_ids) ==
    [status_code |-> status_code, detail |-> detail, order_ids |-> order_ids]

\* What search_place_index_for_text answers for a text: nothing for "x", one
\* place for every other text.
PlaceIndex(text) ==
    IF _normalize_address(text) = <<"x">> THEN <<>>
    ELSE <<[Point |-> <<OverrideP.lng, OverrideP.lat>>]>>

\* get_address_geocoder().geocode(address); env.geocoder is the backend the
\* environment variables select.
Geocode(env, address) ==
    IF env.geocoder = "in-memory"
    THEN InMemoryAddressGeocoder_geocode(address)
    ELSE AmazonLocationAddressGeocoder_geocode(address, PlaceIndex(address))

\* A call returns [raised, error, value] and what it touched on the way.
StopsOutcome(raised, error, stops, fetched, calls) ==
    [raised |-> raised, error |-> error, stops |-> stops, fetched |-> fetched,
     calls |-> calls]

\* The locals of _stops_from_assigned_orders; calls lists the texts handed to
\* geocoder.geocode, in order.
NoStopsYet ==
    [geocode_cache |-> EmptyDict, unresolved_order_ids |-> <<>>, stops |-> <<>>,
     calls |-> <<>>]

\* A variant of the append that keeps only the first unresolved order.
MarkFirstUnresolved(acc, order) ==
    IF acc.unresolved_order_ids = <<>>
    THEN [acc EXCEPT !.unresolved_order_ids = Append(@, order.id)]
    ELSE acc

\* unresolved_order_ids.append(order.id); continue
MarkUnresolved(acc, order) ==
    [acc EXCEPT !.unresolved_order_ids = Append(@, order.id)]

\* if point is None: ... continue; else stops.append(RouteStopInput(...))
UsePoint(acc, order, point) ==
    IF point = None THEN MarkUnresolved(acc, order)
    ELSE [acc EXCEPT !.stops = Append(@, RouteStopInput(order.id, point[1].lat,
                                                        point[1].lng,
                                                        Some(order.delivery)))]

\* point = geocoder.geocode(delivery); geocode_cache[delivery] = point
LookUp(acc, order, delivery, point) ==
    UsePoint([acc EXCEPT !.geocode_cache = DictSet(@, delivery, point),
                         !.calls = Append(@, delivery)],
             order, point)

\* A variant of the loop body that asks the geocoder for every order.
GeocodeOrderUncached(acc, order, delivery, env) ==
    IF delivery = <<>> THEN MarkUnresolved(acc, order)
    ELSE LookUp(acc, order, delivery, Geocode(env, delivery).point)

\* One pass of the loop body, delivery being (order.delivery or "").strip().
GeocodeOrder(acc, order, delivery, env) ==
    IF delivery = <<>> THEN MarkUnresolved(acc, order)
    ELSE IF delivery \in DOMAIN acc.geocode_cache
    THEN UsePoint(acc, order, acc.geocode_cache[delivery])
    ELSE LookUp(acc, order, delivery, Geocode(env, delivery).point)

RECURSIVE GeocodeAssigned(_, _, _)
GeocodeAssigned(assigned, env, acc) ==
    IF assigned = <<>> THEN acc
    ELSE GeocodeAssigned(Tail(assigned), env,
             GeocodeOrder(acc, Head(assigned), Strip(Head(assigned).delivery), env))

\* A variant of the end of the loop that returns the resolved stops whatever
\* was left unresolved.
StopsDespiteFailure(done) == StopsOutcome(FALSE, None, done.stops, TRUE, done.calls)

\* if unresolved_order_ids: raise ...; return stops
StopsOrFailure(done) ==
    IF done.unresolved_order_ids # <<>>
    THEN StopsOutcome(TRUE,
             HTTPException(400,
                 "Unable to geocode delivery addresses for assigned orders: ",
                 done.unresolved_order_ids),
             <<>>, TRUE, done.calls)
    ELSE StopsOutcome(FALSE, None, done.stops, TRUE, done.calls)

GeocodeAll(assigned, env) ==
    IF assigned = <<>>
    THEN StopsOutcome(TRUE,
             HTTPException(400, "No assigned orders found for driver", <<>>),
             <<>>, TRUE, <<>>)
    ELSE StopsOrFailure(GeocodeAssigned(assigned, env, NoStopsYet))

_stops_from_assigned_orders(org_id, driver_id, env) ==
    GeocodeAll(get_assigned_orders_for_driver(org_id, driver_id), env)

\* Returns Some(<<lat, lng>>), or None when it raises "No stops available".
_resolve_start_position(org_id, driver_id, stops, start_lat, start_lng) ==
    IF start_lat # None /\ start_lng # None
    THEN Some(<<start_lat[1], start_lng[1]>>)
    ELSE LET driver_locations == list_locations(org_id)
             mine == {location \in driver_locations : location.driver_id = driver_id}
         IN  IF mine # {}
             THEN LET location == CHOOSE location \in mine : TRUE
                  IN  Some(<<location.lat, location.lng>>)
             ELSE IF stops = <<>> THEN None
             ELSE Some(<<stops[1].lat, stops[1].lng>>)

\* get_route_matrix_provider().calculate_matrix(points); env.matrix is the
\* backend the environment variables select, env.errored the cells the live
\* service reports as errors.
CalculateMatrix(env, points) ==
    IF env.matrix = "in-memory"
    THEN InMemoryRouteMatrixProvider_calculate_matrix(points)
    ELSE AmazonLocationRouteMatrixProvider_calculate_matrix(
             RouteMatrixResponse(points, env.errored))

\* A variant of the append that numbers the stops from 0.
AddLegCountFromZero(acc, node, stop, distance, duration) ==
    [ordered_stops |->
         Append(acc.ordered_stops,
                RouteOptimizedStop(Len(acc.ordered_stops), stop, distance, duration)),
     total_distance |-> NumAdd(acc.total_distance, distance),
     total_duration |-> NumAdd(acc.total_duration, duration),
     previous_node |-> node]

\* ordered_stops.append(...); the totals; previous_node = node
AddLeg(acc, node, stop, distance, duration) ==
    [ordered_stops |->
         Append(acc.ordered_stops,
                RouteOptimizedStop(Len(acc.ordered_stops) + 1, stop, distance, duration)),
     total_distance |-> NumAdd(acc.total_distance, distance),
     total_duration |-> NumAdd(acc.total_duration, duration),
     previous_node |-> node]

\* A variant of the loop body that measures every leg from the start node.
VisitNodeFromStart(acc, node, stops, matrix) ==
    IF node = 0 THEN acc
    ELSE AddLeg(acc, node, stops[node], matrix.distance_meters[0][node],
                matrix.duration_seconds[0][node])

\* One pass of the loop body; stops[node] is stops[node - 1] of a 0-based list.
VisitNode(acc, node, stops, matrix) ==
    IF node = 0 THEN acc
    ELSE AddLeg(acc, node, stops[node],
                matrix.distance_meters[acc.previous_node][node],
                matrix.duration_seconds[acc.previous_node][node])

\* A variant of the assembly loop that stops one node early.
RECURSIVE AssembleStopsButLast(_, _, _, _)
AssembleStopsButLast(sequence, stops, matrix, acc) ==
    IF Len(sequence) <= 1 THEN acc
    ELSE AssembleStopsButLast(Tail(sequence), stops, matrix,
                              VisitNode(acc, Head(sequence), stops, matrix))

\* The assembly loop over route_node_sequence.
RECURSIVE AssembleStops(_, _, _, _)
AssembleStops(sequence, stops, matrix, acc) ==
    IF sequence = <<>> THEN acc
    ELSE AssembleStops(Tail(sequence), stops, matrix,
                       VisitNode(acc, Head(sequence), stops, matrix))

\* The fallback's stop and totals.
FallbackLeg(acc, stop, distance, duration) ==
    [ordered_stops |-> <<RouteOptimizedStop(1, stop, distance, duration)>>,
     total_distance |-> NumAdd(acc.total_distance, distance),
     total_duration |-> NumAdd(acc.total_duration, duration),
     previous_node |-> acc.previous_node]

\* The single-stop fallback after the loop.
SingleStopFallback(stops, matrix, acc) ==
    IF acc.ordered_stops = <<>> /\ stops # <<>>
    THEN FallbackLeg(acc, stops[1],
             IF ListLen(matrix.distance_meters) > 1
             THEN matrix.distance_meters[0][1] ELSE Zero,
             IF ListLen(matrix.duration_seconds) > 1
             THEN matrix.duration_seconds[0][1] ELSE Zero)
    ELSE acc

RouteOptimizeResponse(matrix_source, total_distance, total_duration, ordered_stops) ==
    [matrix_source |-> matrix_source,
     total_distance_meters |-> Round2(total_distance),
     total_duration_seconds |-> Round2(total_duration),
     ordered_stops |-> ordered_stops]

\* payload.stops or _stops_from_assigned_orders(...)
ResolveStops(payload, org_id, env) ==
    IF payload.stops # None /\ payload.stops[1] # <<>>
    THEN StopsOutcome(FALSE, None, payload.stops[1], FALSE, <<>>)
    ELSE _stops_from_assigned_orders(org_id, payload.driver_id, env)

\* The request as the handler sees it: the body, the caller's organization
\* (user["org_id"]) and the backends the environment selects.
Request(payload, org_id, env) == [payload |-> payload, org_id |-> org_id, env |-> env]

\* One exchange: the request (q), what the handler touched, and its answer.
Exchange(q, resolved, code, error, start, matrix, sequence, totals, body) ==
    [phase |-> "done", payload |-> q.payload, org_id |-> q.org_id, env |-> q.env,
     fetched_assigned |-> resolved.fetched, geocode_calls |-> resolved.calls,
     stops |-> resolved.stops, status_code |-> code, error |-> error,
     start |-> start, matrix |-> matrix, route_node_sequence |-> sequence,
     totals |-> totals, body |-> body]

\* The failed exchange of a raised HTTPException.
Refused(q, resolved, error) ==
    Exchange(q, resolved, error.status_code, Some(error), None, None, None,
             None, None)

\* [[start_lng, start_lat]] + [[stop.lng, stop.lat] for stop in stops]
MatrixPoints(start, stops) ==
    List0(<<<<start[2], start[1]>>>>
          \o [k \in 1..Len(stops) |-> <<stops[k].lng, stops[k].lat>>])

\* return RouteOptimizeResponse(...), final being the locals after the
\* fallback.
Respond(q, resolved, start, matrix, route_node_sequence, final) ==
    Exchange(q, resolved, 200, None, start, Some(matrix),
             Some(route_node_sequence),
             Some([total_distance |-> final.total_distance,
                   total_duration |-> final.total_duration]),
             Some(RouteOptimizeResponse(matrix.source, final.total_distance,
                                        final.total_duration, final.ordered_stops)))

\* The response assembly: the loop, the fallback, the response.
AssembleResponse(q, resolved, start, matrix, route_node_sequence) ==
    Respond(q, resolved, start, matrix, route_node_sequence,
        SingleStopFallback(resolved.stops, matrix,
            AssembleStops(route_node_sequence, resolved.stops, matrix,
                [ordered_stops |-> <<>>, total_distance |-> Zero,
                 total_duration |-> Zero,
                 previous_node |-> IF route_node_sequence # <<>>
                                   THEN route_node_sequence[1] ELSE 0])))

\* The stores a request works on: the order store, the location store and
\* the two maps of the in-memory geocoder.
Stores(order_items, location_items, geocoder_overrides, geocoder_failures) ==
    [orders |-> order_items, locations |-> location_items,
     overrides |-> geocoder_overrides, failures |-> geocoder_failures]

\* The texts among calls that the geocoder of env resolves.
ResolvedCalls(calls, env) ==
    {calls[c] : c \in {c \in 1..Len(calls) : Geocode(env, calls[c]).point # None}}

\* A variant of the handler whose geocoder keeps every resolved lookup in
\* _overrides.
StoresAfterMemoizing(calls, env) ==
    Stores(orders, locations,
           [k \in DOMAIN overrides
                  \cup {_normalize_address(a) : a \in ResolvedCalls(calls, env)} |->
               IF k \in DOMAIN overrides THEN overrides[k]
               ELSE Geocode(env, CHOOSE a \in ResolvedCalls(calls, env) :
                                    _normalize_address(a) = k).point[1]],
           failures)

\* The stores as the handler leaves them: it lists orders and locations and
\* calls geocode, none of which writes.
StoresAfterOptimize(calls, env) == Stores(orders, locations, overrides, failures)

\* The handler's effect on the stores.
HandlerLeaves(after) ==
    /\ orders' = after.orders
    /\ locations' = after.locations
    /\ overrides' = after.overrides
    /\ failures' = after.failures

\* POST /routes/optimize by an Admin or Dispatcher of org_id, in the
\* environment env.  Each \E over a one-element set names the value of one
\* statement of the handler; solution is what the solver returns.
optimize_driver_route(payload, org_id, env) ==
    /\ resp = NoResp
    /\ \E q \in {Request(payload, org_id, env)} :
       \E resolved \in {ResolveStops(payload, org_id, env)} :
         IF resolved.raised
         THEN resp' = Refused(q, resolved, resolved.error)
         ELSE IF Len(resolved.stops) = 0
         THEN resp' = Refused(q, resolved,
                          HTTPException(400, "At least one stop is required", <<>>))
         ELSE
         \E start \in {_resolve_start_position(org_id, payload.driver_id,
                           resolved.stops, payload.start_lat, payload.start_lng)} :
         IF start = None
         THEN resp' = Refused(q, resolved,
                          HTTPException(400, "No stops available for optimization", <<>>))
         ELSE
         \E matrix_points \in {MatrixPoints(start[1], resolved.stops)} :
         \E matrix \in {CalculateMatrix(env, matrix_points)} :
         \E solution \in SolutionsFor(matrix.duration_seconds, 0) :
         \E solved \in {solve_open_route(matrix.duration_seconds, 0, solution)} :
         IF solved.phase = "raised"
         THEN resp' = Exchange(q, resolved, 500,
                          Some(HTTPException(500, solved.error, <<>>)),
                          start, Some(matrix), None, None, None)
         ELSE resp' = AssembleResponse(q, resolved, start, matrix, solved.value)
    /\ HandlerLeaves(StoresAfterOptimize(resp'.geocode_calls, env))
    /\ UNCHANGED <<lastGeo, solveVars, envVars, loop, billing>>

\* The response goes back to the caller; the exchange is over.
ReturnResponse ==
    /\ resp # NoResp
    /\ resp' = NoResp
    /\ UNCHANGED <<geoVars, storeVars, solveVars, envVars, loop, billing>>

----------------------------------------------------------------------------
(* Initial state: the module-level singletons after import *)

Init ==
    /\ overrides = EmptyDict
    /\ failures = EmptyDict
    /\ lastGeo = NoGeo
    /\ orders = <<>>
    /\ locations = EmptyDict
    /\ resp = NoResp
    /\ solveIn = NoSolve
    /\ solveOut = NoSolve
    /\ environ = EmptyDict
    /\ probe = NoProbe
    /\ loop = NoLoop
    /\ billing = NoBilling

----------------------------------------------------------------------------
(* The geocoder driven directly: the module-level helpers and geocode() *)

GeoTexts ==
    {AddrAB, AddrABVariant, AddrX, AddrBlank, AddrInline, AddrInlineSpaced,
     AddrBadInline}

\* The texts the tests' helpers register results and failures for.
GeoSetTexts == {AddrAB, AddrABVariant, AddrX, AddrBlank, AddrInline}

set_in_memory_geocode_result(address, lat, lng) ==
    /\ set_override(address, lat, lng)
    /\ UNCHANGED <<lastGeo, storeVars, resp, solveVars, envVars, loop, billing>>

set_in_memory_geocode_failure(address) ==
    /\ set_failure(address)
    /\ UNCHANGED <<lastGeo, storeVars, resp, solveVars, envVars, loop, billing>>

reset_in_memory_address_geocoder ==
    /\ reset
    /\ UNCHANGED <<lastGeo, storeVars, resp, solveVars, envVars, loop, billing>>

GeocodeInMemory(address) ==
    LET r == InMemoryAddressGeocoder_geocode(address)
    IN  /\ lastGeo' = [kind |-> "in-memory", address |-> address,
                       point |-> r.point, backend |-> r.backend]
        /\ UNCHANGED <<overrides, failures, storeVars, resp, solveVars, envVars, loop, billing>>

GeocodeAmazon(address, results) ==
    LET r == AmazonLocationAddressGeocoder_geocode(address, results)
    IN  /\ lastGeo' = [kind |-> "amazon", address |-> address,
                       point |-> r.point, backend |-> r.backend]
        /\ UNCHANGED <<overrides, failures, storeVars, resp, solveVars, envVars, loop, billing>>

----------------------------------------------------------------------------
(* SpecGeo: the geocoders and the in-memory geocoder's maps *)

NextGeo ==
    \/ \E address \in GeoSetTexts :
           set_in_memory_geocode_result(address, OverrideP.lat, OverrideP.lng)
    \/ \E address \in GeoSetTexts : set_in_memory_geocode_failure(address)
    \/ reset_in_memory_address_geocoder
    \/ \E address \in GeoTexts : GeocodeInMemory(address)
    \/ \E address \in GeoTexts, results \in PlaceResults : GeocodeAmazon(address, results)

SpecGeo == Init /\ [][NextGeo]_vars

----------------------------------------------------------------------------
(* SpecRepeat: the in-memory geocoder asked twice in one cache state *)

AddrInlinePadded == <<" ", "1", ",", "2", " ">>

AddrEmpty == <<>>

RepeatTexts == GeoTexts \cup {AddrInlinePadded, AddrEmpty}

\* Two geocode() calls in a row, nothing registered or reset in between.
GeocodeTwice(first, second) ==
    /\ lastGeo' = [kind |-> "in-memory-twice",
                   first |-> [address |-> first,
                              point |-> InMemoryAddressGeocoder_geocode(first).point],
                   second |-> [address |-> second,
                               point |-> InMemoryAddressGeocoder_geocode(second).point]]
    /\ UNCHANGED <<overrides, failures, storeVars, resp, solveVars, envVars, loop, billing>>

NextRepeat ==
    \/ \E address \in GeoSetTexts :
           set_in_memory_geocode_result(address, OverrideP.lat, OverrideP.lng)
    \/ \E address \in GeoSetTexts : set_in_memory_geocode_failure(address)
    \/ reset_in_memory_address_geocoder
    \/ \E first \in RepeatTexts, second \in RepeatTexts : GeocodeTwice(first, second)

SpecRepeat == Init /\ [][NextRepeat]_vars

----------------------------------------------------------------------------
(* SpecCache: either geocoder asked while results and failures are         *)
(* registered; each observation keeps the maps as they were at the call    *)

CacheTexts == {AddrAB, AddrX}

LookupTexts == {AddrAB, AddrABVariant, AddrX, AddrInline, AddrBadInline}

Observation(kind, address, returned) ==
    [kind |-> kind, address |-> address, point |-> returned.point,
     backend |-> returned.backend, overrides |-> overrides, failures |-> failures]

ObserveInMemory(address) ==
    /\ lastGeo' = Observation("in-memory", address,
                              InMemoryAddressGeocoder_geocode(address))
    /\ UNCHANGED <<overrides, failures, storeVars, resp, solveVars, envVars, loop, billing>>

ObserveAmazon(address, results) ==
    /\ lastGeo' = Observation("amazon", address,
                              AmazonLocationAddressGeocoder_geocode(address, results))
    /\ UNCHANGED <<overrides, failures, storeVars, resp, solveVars, envVars, loop, billing>>

NextCache ==
    \/ \E address \in CacheTexts :
           set_in_memory_geocode_result(address, OverrideP.lat, OverrideP.lng)
    \/ \E address \in CacheTexts : set_in_memory_geocode_failure(address)
    \/ reset_in_memory_address_geocoder
    \/ \E address \in LookupTexts : ObserveInMemory(address)
    \/ \E address \in LookupTexts, results \in PlaceResults :
           ObserveAmazon(address, results)

SpecCache == Init /\ [][NextCache]_vars

----------------------------------------------------------------------------
(* geocode_service.py, route_service.py: backend selection *)

\* os.environ.get(key)
environ_get(key) == IF key \in DOMAIN environ THEN Some(environ[key]) ELSE None

TruthyWords ==
    {<<"1">>, <<"t", "r", "u", "e">>, <<"y", "e", "s">>, <<"o", "n">>}

\* A variant of _as_bool that compares the text as it is.
AsBoolExact(value, default) ==
    IF value = None THEN default ELSE value[1] \in TruthyWords

_as_bool(value, default) ==
    IF value = None THEN default ELSE Lower(Strip(value[1])) \in TruthyWords

\* The constructors of the live backends; boto3 is "missing" (the import
\* failed), "client-raises" (boto3.client("location") raises) or "ok".
AmazonLocationAddressGeocoder_init(place_index_name, boto3) ==
    IF boto3 = "missing" THEN Raised("boto3 not available")
    ELSE IF boto3 = "client-raises" THEN Raised("client")
    ELSE Returned([instance |-> "AmazonLocationAddressGeocoder",
                   place_index_name |-> place_index_name])

AmazonLocationRouteMatrixProvider_init(calculator_name, boto3) ==
    IF boto3 = "missing" THEN Raised("boto3 not available")
    ELSE IF boto3 = "client-raises" THEN Raised("client")
    ELSE Returned([instance |-> "AmazonLocationRouteMatrixProvider",
                   calculator_name |-> calculator_name])

\* The module-level singletons.
_IN_MEMORY_ADDRESS_GEOCODER == [instance |-> "_IN_MEMORY_ADDRESS_GEOCODER"]

_IN_MEMORY_ROUTE_MATRIX_PROVIDER == [instance |-> "_IN_MEMORY_ROUTE_MATRIX_PROVIDER"]

\* try: return Amazon...(name) except Exception: return the singleton
ConstructedOr(constructed, singleton) ==
    IF constructed.phase = "raised" THEN singleton ELSE constructed.value

\* (os.environ.get(key) or "").strip()
StrippedName(value) == IF value = None THEN <<>> ELSE Strip(value[1])

get_address_geocoder(boto3) ==
    IF _as_bool(environ_get("USE_IN_MEMORY_GEOCODER"), FALSE)
    THEN _IN_MEMORY_ADDRESS_GEOCODER
    ELSE IF StrippedName(environ_get("LOCATION_PLACE_INDEX_NAME")) # <<>>
    THEN ConstructedOr(
             AmazonLocationAddressGeocoder_init(
                 StrippedName(environ_get("LOCATION_PLACE_INDEX_NAME")), boto3),
             _IN_MEMORY_ADDRESS_GEOCODER)
    ELSE _IN_MEMORY_ADDRESS_GEOCODER

get_route_matrix_provider(boto3) ==
    IF _as_bool(environ_get("USE_IN_MEMORY_ROUTE_MATRIX"), FALSE)
    THEN _IN_MEMORY_ROUTE_MATRIX_PROVIDER
    ELSE IF StrippedName(environ_get("LOCATION_ROUTE_CALCULATOR_NAME")) # <<>>
    THEN ConstructedOr(
             AmazonLocationRouteMatrixProvider_init(
                 StrippedName(environ_get("LOCATION_ROUTE_CALCULATOR_NAME")), boto3),
             _IN_MEMORY_ROUTE_MATRIX_PROVIDER)
    ELSE _IN_MEMORY_ROUTE_MATRIX_PROVIDER

----------------------------------------------------------------------------
(* SpecSelect: environment variables are set and unset and the getters     *)
(* are called                                                              *)

\* The values each variable is given.
EnvironValues ==
    [USE_IN_MEMORY_GEOCODER |->
         {<<"t", "r", "u", "e">>, <<" ", "O", "N", " ">>, <<"0">>, <<>>},
     USE_IN_MEMORY_ROUTE_MATRIX |->
         {<<"1">>, <<"Y", "e", "s">>, <<"n", "o">>},
     LOCATION_PLACE_INDEX_NAME |-> {<<" ">>, <<" ", "i", "d", "x">>},
     LOCATION_ROUTE_CALCULATOR_NAME |-> {<<>>, <<"c", "a", "l", "c", " ">>}]

Boto3States == {"missing", "client-raises", "ok"}

\* monkeypatch.setenv(key, value)
setenv(key, value) ==
    /\ environ' = DictSet(environ, key, value)
    /\ UNCHANGED <<geoVars, storeVars, resp, solveVars, probe, loop, billing>>

\* monkeypatch.delenv(key)
delenv(key) ==
    /\ key \in DOMAIN environ
    /\ environ' = DictPop(environ, key)
    /\ UNCHANGED <<geoVars, storeVars, resp, solveVars, probe, loop, billing>>

\* A call of a getter; the probe keeps what the getter read and returned.
GetAddressGeocoder(boto3) ==
    /\ probe' = [call |-> "get_address_geocoder", boto3 |-> boto3,
                 flag |-> environ_get("USE_IN_MEMORY_GEOCODER"),
                 name |-> environ_get("LOCATION_PLACE_INDEX_NAME"),
                 returned |-> get_address_geocoder(boto3)]
    /\ UNCHANGED <<geoVars, storeVars, resp, solveVars, environ, loop, billing>>

GetRouteMatrixProvider(boto3) ==
    /\ probe' = [call |-> "get_route_matrix_provider", boto3 |-> boto3,
                 flag |-> environ_get("USE_IN_MEMORY_ROUTE_MATRIX"),
                 name |-> environ_get("LOCATION_ROUTE_CALCULATOR_NAME"),
                 returned |-> get_route_matrix_provider(boto3)]
    /\ UNCHANGED <<geoVars, storeVars, resp, solveVars, environ, loop, billing>>

NextSelect ==
    \/ \E key \in DOMAIN EnvironValues : \E value \in EnvironValues[key] :
           setenv(key, value)
    \/ \E key \in DOMAIN EnvironValues : delenv(key)
    \/ \E boto3 \in Boto3States : GetAddressGeocoder(boto3)
    \/ \E boto3 \in Boto3States : GetRouteMatrixProvider(boto3)

SpecSelect == Init /\ [][NextSelect]_vars

----------------------------------------------------------------------------
(* SpecMatrix: calculate_matrix of both providers applied to point lists   *)

MaxPoints == 3

PointPool == {StartP0, StopP1, StopP2}

\* Lists of [lng, lat] of up to MaxPoints points.
PointLists ==
    UNION {[0..(n - 1) -> {<<p.lng, p.lat>> : p \in PointPool}] : n \in 0..MaxPoints}

\* The cells the live service reports as errors for n positions.
MatrixErrorSets(n) ==
    {e \in {{}, {<<0, 1>>}, {<<0, 0>>}, {<<1, 0>>, <<1, 1>>},
            {<<0, 2>>, <<2, 1>>}, (0..(n - 1)) \X (0..(n - 1))} :
        e \subseteq (0..(n - 1)) \X (0..(n - 1))}

CalculateInMemory(points) ==
    /\ probe' = [call |-> "calculate_matrix", provider |-> "in-memory",
                 points |-> points, errored |-> {},
                 returned |-> InMemoryRouteMatrixProvider_calculate_matrix(points)]
    /\ UNCHANGED <<geoVars, storeVars, resp, solveVars, environ, loop, billing>>

CalculateAmazon(points, errored) ==
    /\ probe' = [call |-> "calculate_matrix", provider |-> "amazon",
                 points |-> points, errored |-> errored,
                 returned |-> AmazonLocationRouteMatrixProvider_calculate_matrix(
                                  RouteMatrixResponse(points, errored))]
    /\ UNCHANGED <<geoVars, storeVars, resp, solveVars, environ, loop, billing>>

NextMatrix ==
    \/ \E points \in PointLists : CalculateInMemory(points)
    \/ \E points \in PointLists : \E errored \in MatrixErrorSets(ListLen(points)) :
           CalculateAmazon(points, errored)

SpecMatrix == Init /\ [][NextMatrix]_vars

----------------------------------------------------------------------------
(* route_service.py: the time limit of the search; routers/routes.py: the  *)
(* optimize handler on the event loop                                      *)

DefaultTimeoutSeconds == 5

MinTimeoutSeconds == 1

MaxTimeoutSeconds == 30

\* int(text): Some(value), or None when it raises ValueError.
ParseInt(text) ==
    LET body == Strip(text)
        digits == IF body # <<>> /\ Head(body) \in {"-", "+"} THEN Tail(body) ELSE body
    IN  IF ~AllDigits(digits) THEN None
        ELSE IF Head(body) = "-" THEN Some(0 - DigitsValue(digits))
        ELSE Some(DigitsValue(digits))

\* max(1, min(timeout, 30))
ClampTimeout(timeout) ==
    IF timeout > MaxTimeoutSeconds THEN MaxTimeoutSeconds
    ELSE IF timeout < MinTimeoutSeconds THEN MinTimeoutSeconds
    ELSE timeout

TimeoutOf(configured) ==
    IF configured = None \/ configured[1] = <<>> THEN DefaultTimeoutSeconds
    ELSE IF ParseInt(configured[1]) = None THEN DefaultTimeoutSeconds
    ELSE ClampTimeout(ParseInt(configured[1])[1])

_optimization_timeout_seconds ==
    TimeoutOf(environ_get("ROUTE_OPTIMIZATION_TIMEOUT_SECONDS"))

\* Where the framework runs a path operation: a coroutine on the thread of
\* the event loop, a plain function on a worker of its thread pool.
HandlerThread(declared) == IF declared = "async def" THEN "loop" ELSE "worker"

\* Where a call runs: a direct call on the thread of its caller, a call
\* handed over (and awaited) on a worker.
CalleeThread(caller_thread, call) == IF call = "direct" THEN caller_thread ELSE "worker"

\* async def optimize_driver_route(...)
OptimizeDeclared == "async def"

\* route_node_sequence = solve_open_route(matrix.duration_seconds, start_index=0)
SolveCall == "direct"

\* A request reaches the server: POST /routes/optimize, or any other one.
RequestArrives(which) ==
    /\ \/ which = "optimize" /\ loop.optimize = "none"
          /\ loop' = [loop EXCEPT !.optimize = "pending"]
       \/ which = "other" /\ loop.other = "none"
          /\ loop' = [loop EXCEPT !.other = "pending"]
    /\ UNCHANGED <<geoVars, storeVars, resp, solveVars, envVars, billing>>

\* The handler starts: stops, start position and matrix.
StartOptimize ==
    /\ loop.optimize = "pending"
    /\ IF HandlerThread(OptimizeDeclared) = "loop"
       THEN /\ loop.thread = "idle"
            /\ loop' = [loop EXCEPT !.optimize = "handling", !.thread = "optimize"]
       ELSE loop' = [loop EXCEPT !.optimize = "handling"]
    /\ UNCHANGED <<geoVars, storeVars, resp, solveVars, envVars, billing>>

\* The handler calls solve_open_route, which sets the time limit and enters
\* SolveWithParameters; a handler that awaits a worker leaves the thread of
\* the loop meanwhile.
BeginSolve ==
    /\ loop.optimize = "handling"
    /\ loop' = [loop EXCEPT
           !.optimize = "solving",
           !.solver = CalleeThread(HandlerThread(OptimizeDeclared), SolveCall),
           !.limit = _optimization_timeout_seconds,
           !.elapsed = 0,
           !.thread = IF HandlerThread(OptimizeDeclared) = "loop"
                         /\ CalleeThread("loop", SolveCall) = "worker"
                      THEN "idle" ELSE @]
    /\ UNCHANGED <<geoVars, storeVars, resp, solveVars, envVars, billing>>

\* One second of the search.
SolverTick ==
    /\ loop.optimize = "solving"
    /\ loop.elapsed < loop.limit
    /\ loop' = [loop EXCEPT !.elapsed = @ + 1]
    /\ UNCHANGED <<geoVars, storeVars, resp, solveVars, envVars, billing>>

\* SolveWithParameters returns, at the time limit at the latest; a handler
\* that awaited it takes the thread of the loop again.
SolveReturns ==
    /\ loop.optimize = "solving"
    /\ IF HandlerThread(OptimizeDeclared) = "loop" /\ loop.solver = "worker"
       THEN /\ loop.thread = "idle"
            /\ loop' = [loop EXCEPT !.optimize = "responding", !.thread = "optimize"]
       ELSE loop' = [loop EXCEPT !.optimize = "responding"]
    /\ UNCHANGED <<geoVars, storeVars, resp, solveVars, envVars, billing>>

\* The handler assembles the response and returns.
FinishOptimize ==
    /\ loop.optimize = "responding"
    /\ loop' = [loop EXCEPT
           !.optimize = "none", !.solver = "none", !.limit = 0, !.elapsed = 0,
           !.thread = IF HandlerThread(OptimizeDeclared) = "loop" THEN "idle" ELSE @]
    /\ UNCHANGED <<geoVars, storeVars, resp, solveVars, envVars, billing>>

\* The loop runs the handler of the other request to its end.
RunOther ==
    /\ loop.other = "pending"
    /\ loop.thread = "idle"
    /\ loop' = [loop EXCEPT !.other = "done"]
    /\ UNCHANGED <<geoVars, storeVars, resp, solveVars, envVars, billing>>

\* The answer of the other request has left.
OtherAnswered ==
    /\ loop.other = "done"
    /\ loop' = [loop EXCEPT !.other = "none"]
    /\ UNCHANGED <<geoVars, storeVars, resp, solveVars, envVars, billing>>

----------------------------------------------------------------------------
(* SpecLoop: an optimize request and another request on one event loop     *)

TimeoutTexts ==
    {<<>>, <<"a", "b", "c">>, <<"0">>, <<" ", "3">>, <<"-", "2">>, <<"9", "9">>}

NextLoop ==
    \/ \E value \in TimeoutTexts : setenv("ROUTE_OPTIMIZATION_TIMEOUT_SECONDS", value)
    \/ delenv("ROUTE_OPTIMIZATION_TIMEOUT_SECONDS")
    \/ \E which \in {"optimize", "other"} : RequestArrives(which)
    \/ StartOptimize
    \/ BeginSolve
    \/ SolverTick
    \/ SolveReturns
    \/ FinishOptimize
    \/ RunOther
    \/ OtherAnswered

SpecLoop == Init /\ [][NextLoop]_vars

----------------------------------------------------------------------------
(* SpecSolve: solve_open_route applied to square matrices *)

MaxNodes == 3

\* Durations: 0 s, 1.5 s, 4 s.
DurationValues == {Zero, Num(1, 500), Num(4, 0)}

\* Rows of a matrix over n nodes: constant rows and one rising row.
RowsOf(n) ==
    {[j \in 0..(n - 1) |-> v] : v \in DurationValues}
        \cup {[j \in 0..(n - 1) |-> Num(j, 250 * j)]}

SquareMatrices(n) == [0..(n - 1) -> RowsOf(n)]

SolveInputs ==
    UNION {{[phase |-> "called", duration_seconds |-> m, start_index |-> s] :
               m \in SquareMatrices(n), s \in IF n = 0 THEN {0} ELSE 0..(n - 1)} :
           n \in 0..MaxNodes}

InitSolve ==
    /\ overrides = EmptyDict
    /\ failures = EmptyDict
    /\ lastGeo = NoGeo
    /\ orders = <<>>
    /\ locations = EmptyDict
    /\ resp = NoResp
    /\ solveIn \in SolveInputs
    /\ solveOut = NoSolve
    /\ environ = EmptyDict
    /\ probe = NoProbe
    /\ loop = NoLoop
    /\ billing = NoBilling

SolveOpenRoute ==
    /\ solveOut = NoSolve
    /\ \E solution \in SolutionsFor(solveIn.duration_seconds, solveIn.start_index) :
           solveOut' = solve_open_route(solveIn.duration_seconds,
                                        solveIn.start_index, solution)
                       @@ [costs |-> IF ListLen(solveIn.duration_seconds) < 2
                                     THEN <<>>
                                     ELSE SolverCostMatrix(solveIn.duration_seconds),
                           manager |-> IF ListLen(solveIn.duration_seconds) < 2
                                       THEN <<>>
                                       ELSE RoutingIndexManager(
                                                ListLen(solveIn.duration_seconds) + 1, 1,
                                                <<solveIn.start_index>>,
                                                <<ListLen(solveIn.duration_seconds)>>)]
    /\ UNCHANGED <<geoVars, storeVars, resp, solveIn, envVars, loop, billing>>

NextSolve == SolveOpenRoute

SpecSolve == InitSolve /\ [][NextSolve]_vars

----------------------------------------------------------------------------
(* The requests and environments the model draws from *)

Orgs == {"org-1", "org-2"}

RouteOptimizeRequest(driver_id, stops, start_lat, start_lng) ==
    [driver_id |-> driver_id, stops |-> stops, start_lat |-> start_lat,
     start_lng |-> start_lng]

Env(geocoder, matrix, errored) ==
    [geocoder |-> geocoder, matrix |-> matrix, errored |-> errored]

StopPool ==
    <<RouteStopInput(101, StopP1.lat, StopP1.lng, None),
      RouteStopInput(102, StopP2.lat, StopP2.lng, None),
      RouteStopInput(103, StopP3.lat, StopP3.lng, None),
      RouteStopInput(104, StopP4.lat, StopP4.lng, None),
      RouteStopInput(105, StopP1.lat, StopP1.lng, None)>>

----------------------------------------------------------------------------
(* SpecOrders: users of two organizations call the order endpoints, the    *)
(* webhook delivers orders, and routes are optimized from assigned orders  *)

MaxTenantOrders == 2

DispatcherA == User("dispatcher-1", "org-1", {ROLE_DISPATCHER})

AdminB == User("admin-2", "org-2", {ROLE_ADMIN})

Driver1 == User("driver-1", "org-1", {ROLE_DRIVER})

\* A driver whose group is spelled in lower case.
Driver2Lower == User("driver-2", "org-1", {<<"d", "r", "i", "v", "e", "r">>})

Staff == {DispatcherA, AdminB}

OrderUsers == {DispatcherA, AdminB, Driver1, Driver2Lower}

OrderIds == 1..MaxTenantOrders

BulkIdLists == {<<1, 2>>, <<2, BlankId, 2>>, <<BlankId>>}

WebhookPayloads ==
    {[org_id |-> org_id, source |-> "external", orders |-> incoming] :
        org_id \in {"org-1", "org-2"},
        incoming \in {<<WebhookOrderInput("ext-1", AddrX)>>,
                      <<WebhookOrderInput("ext-1", AddrAB)>>,
                      <<WebhookOrderInput("ext-1", AddrX),
                        WebhookOrderInput("ext-1", AddrAB)>>}}
    \cup {[org_id |-> "org-1", source |-> "shop",
           orders |-> <<WebhookOrderInput("ext-1", AddrAB)>>],
          [org_id |-> "org-1", source |-> "external",
           orders |-> <<WebhookOrderInput("ext-2", AddrX),
                        WebhookOrderInput("ext-1", AddrAB)>>]}

\* One request to an order endpoint: the handler runs against the store and
\* its answer is on its way to the caller.
Idle == resp = NoResp /\ probe = NoProbe

OrderCall(call, user, args, answer) ==
    /\ orders' = answer.store
    /\ probe' = [call |-> call, user |-> user, args |-> args,
                 status_code |-> answer.status_code, returned |-> answer.returned,
                 before |-> orders, after |-> answer.store]
    /\ UNCHANGED <<geoVars, locations, resp, solveVars, environ, loop, billing>>

CreateOrder(user, delivery) ==
    /\ Idle
    /\ Len(orders) < MaxTenantOrders
    /\ \E answer \in {CreateOrderAnswer(user, delivery)} :
           OrderCall("create_order", user, [delivery |-> delivery], answer)

ListOrders(user) ==
    /\ Idle
    /\ \E answer \in {ListOrdersAnswer(user)} :
           OrderCall("list_orders", user, [none |-> TRUE], answer)

AssignOrder(user, order_id, driver_id) ==
    /\ Idle
    /\ \E answer \in {AssignOrderAnswer(user, order_id, driver_id)} :
           OrderCall("assign_order", user,
                  [order_ids |-> <<order_id>>, driver_id |-> driver_id], answer)

UnassignOrder(user, order_id) ==
    /\ Idle
    /\ \E answer \in {unassign_order(user, order_id)} :
           OrderCall("unassign_order", user, [order_ids |-> <<order_id>>], answer)

BulkAssignOrders(user, order_ids, driver_id) ==
    /\ Idle
    /\ \E answer \in {bulk_assign_orders(user, order_ids, driver_id)} :
           OrderCall("bulk_assign_orders", user,
                  [order_ids |-> order_ids, driver_id |-> driver_id], answer)

BulkUnassignOrders(user, order_ids) ==
    /\ Idle
    /\ \E answer \in {bulk_unassign_orders(user, order_ids)} :
           OrderCall("bulk_unassign_orders", user, [order_ids |-> order_ids], answer)

UpdateOrderStatus(user, order_id, status) ==
    /\ Idle
    /\ \E answer \in {update_order_status(user, order_id, status)} :
           OrderCall("update_order_status", user,
                  [order_ids |-> <<order_id>>, status |-> status], answer)

DriverInbox(user) ==
    /\ Idle
    /\ \E answer \in {driver_inbox(user)} :
           OrderCall("driver_inbox", user, [none |-> TRUE], answer)

GetOrder(user, order_id) ==
    /\ Idle
    /\ \E answer \in {GetOrderAnswer(user, order_id)} :
           OrderCall("get_order", user, [order_ids |-> <<order_id>>], answer)

OrderIngestWebhook(payload, allowed_org_id) ==
    /\ Idle
    /\ \E answer \in {order_ingest_webhook(payload, allowed_org_id)} :
           /\ Len(answer.store) <= MaxTenantOrders
           /\ OrderCall("order_ingest_webhook", User("webhook", payload.org_id, {}),
                        [payload |-> payload], answer)

\* The answer reaches the caller.
ReturnAnswer ==
    /\ probe # NoProbe
    /\ probe' = NoProbe
    /\ UNCHANGED <<geoVars, storeVars, resp, solveVars, environ, loop, billing>>

\* POST /routes/optimize without stops, on the in-memory backends.
OptimizeAssigned(org_id, driver_id) ==
    /\ Idle
    /\ optimize_driver_route(RouteOptimizeRequest(driver_id, None, None, None),
                             org_id, Env("in-memory", "in-memory", {}))

NextOrders ==
    \/ \E user \in Staff : CreateOrder(user, AddrAB)
    \/ \E user \in Staff : ListOrders(user)
    \/ \E user \in Staff \cup {Driver1}, order_id \in OrderIds,
          driver_id \in {"driver-1", "driver-2"} :
           AssignOrder(user, order_id, driver_id)
    \/ \E user \in Staff, order_id \in OrderIds : UnassignOrder(user, order_id)
    \/ \E user \in Staff, order_ids \in BulkIdLists,
          driver_id \in {"driver-1", " driver-2 ", " "} :
           BulkAssignOrders(user, order_ids, driver_id)
    \/ \E user \in Staff, order_ids \in BulkIdLists :
           BulkUnassignOrders(user, order_ids)
    \/ \E user \in OrderUsers, order_id \in OrderIds, status \in OrderStatus :
           UpdateOrderStatus(user, order_id, status)
    \/ \E user \in {Driver1, Driver2Lower, AdminB} : DriverInbox(user)
    \/ \E user \in OrderUsers, order_id \in OrderIds : GetOrder(user, order_id)
    \/ \E payload \in WebhookPayloads, allowed_org_id \in {"", "org-1"} :
           OrderIngestWebhook(payload, allowed_org_id)
    \/ ReturnAnswer
    \/ \E org_id \in {"org-1", "org-2"}, driver_id \in {"driver-1", "driver-2"} :
           OptimizeAssigned(org_id, driver_id)
    \/ ReturnResponse

SpecOrders == Init /\ [][NextOrders]_vars

----------------------------------------------------------------------------------------------------------------------------------------
(* SpecBilling: invitations are created, activated and cancelled against   *)
(* the in-memory stores or against DynamoDB                                 *)

MaxSeats == 2

MaxInvitations == 3

MaxConcurrent == 2

AdminA == User("admin-1", "org-1", {ROLE_ADMIN})

\* get_billing_store / get_identity_repository: the module's own stores, or
\* the DynamoDB tables named in the environment.
BillingBackends == {"in-memory", "dynamo"}

\* The organization has bought one or two Dispatcher seats and one Driver
\* seat.
InitBilling ==
    /\ overrides = EmptyDict
    /\ failures = EmptyDict
    /\ lastGeo = NoGeo
    /\ orders = <<>>
    /\ locations = EmptyDict
    /\ resp = NoResp
    /\ solveIn = NoSolve
    /\ solveOut = NoSolve
    /\ environ = EmptyDict
    /\ probe = NoProbe
    /\ loop = NoLoop
    /\ billing \in {[NoBilling EXCEPT
                        !.backend = backend,
                        !.subscriptions =
                            DictSet(EmptyDict, "org-1",
                                    SeatSubscriptionRecord("org-1", seats, 1))] :
                       backend \in BillingBackends, seats \in 1..MaxSeats}

BillingInvitationCreateRequest(user_id, role) == [user_id |-> user_id, role |-> role]

InvitationPayloads ==
    {BillingInvitationCreateRequest("dispatcher-1", ROLE_DISPATCHER),
     BillingInvitationCreateRequest("dispatcher-2", ROLE_DISPATCHER),
     BillingInvitationCreateRequest("driver-3", ROLE_DRIVER)}

StoresOf(b) == BillingStores(b.subscriptions, b.invitations, b.users)

WithStores(b, store) ==
    [b EXCEPT !.subscriptions = store.subscriptions,
              !.invitations = store.invitations,
              !.users = store.users]

\* The answer of a handler, with the stores as they were when it answered
\* and as it left them.
BillingAnswer(call, user, args, decision, before, after) ==
    [call |-> call, user |-> user, args |-> args,
     status_code |-> decision.status_code, detail |-> decision.detail,
     read |-> decision.read, before |-> before, after |-> after]

\* The writes of a handler that has decided to go on.
HandlerWrite(store, call, user, args, decision) ==
    IF call = "create_invitation" THEN CreateInvitationWrite(store, user, args.payload)
    ELSE IF call = "activate_invitation"
    THEN ActivateInvitationWrite(store, user, decision.read.invitation[1])
    ELSE CancelInvitationWrite(store, user, decision.read.invitation[1])

\* One handler from the role gate to its decision.  A refusal is answered
\* at once.  Over the in-memory stores the writes follow at once as well:
\* the handler is an async def without an await, so nothing else runs on the
\* event loop between its reads and its writes.  Over DynamoDB the handler
\* runs in one Lambda invocation among others, and its puts reach the tables
\* some time after its reads.
Handle(call, user, args, decision) ==
    IF ~require_roles({ROLE_ADMIN}, user)
    THEN billing' = [billing EXCEPT !.answer =
             BillingAnswer(call, user, args,
                           Decision(403, "Forbidden: insufficient role", <<>>),
                           StoresOf(billing), StoresOf(billing))]
    ELSE IF decision.status_code # 200
    THEN billing' = [billing EXCEPT !.answer =
             BillingAnswer(call, user, args, decision,
                           StoresOf(billing), StoresOf(billing))]
    ELSE IF billing.backend = "in-memory"
    THEN \E written \in {HandlerWrite(StoresOf(billing), call, user, args, decision)} :
             billing' = [WithStores(billing, written) EXCEPT !.answer =
                 BillingAnswer(call, user, args, decision, StoresOf(billing), written)]
    ELSE /\ Len(billing.flights) < MaxConcurrent
         /\ billing' = [billing EXCEPT !.flights =
                Append(@, [call |-> call, user |-> user, args |-> args,
                           decision |-> decision])]

BillingIdle == billing.answer = NoAnswer

OtherThanBilling == <<geoVars, storeVars, resp, solveVars, envVars, loop>>

CreateInvitation(user, payload) ==
    /\ BillingIdle
    /\ Len(billing.invitations) + Len(billing.flights) < MaxInvitations
    /\ \E decision \in {CreateInvitationDecision(
                           CreateInvitationReads(StoresOf(billing), user, payload),
                           payload)} :
           Handle("create_invitation", user, [payload |-> payload], decision)
    /\ UNCHANGED OtherThanBilling

ActivateInvitation(user, invitation_id) ==
    /\ BillingIdle
    /\ \E decision \in {ActivateInvitationDecision(
                           ActivateInvitationReads(StoresOf(billing), user,
                                                   invitation_id))} :
           Handle("activate_invitation", user, [invitation_id |-> invitation_id],
                  decision)
    /\ UNCHANGED OtherThanBilling

CancelInvitation(user, invitation_id) ==
    /\ BillingIdle
    /\ \E decision \in {CancelInvitationDecision(
                           CancelInvitationReads(StoresOf(billing), user,
                                                 invitation_id))} :
           Handle("cancel_invitation", user, [invitation_id |-> invitation_id],
                  decision)
    /\ UNCHANGED OtherThanBilling

WithoutFlight(flights, k) ==
    SubSeq(flights, 1, k - 1) \o SubSeq(flights, k + 1, Len(flights))

\* The puts of a handler in flight reach the DynamoDB tables.
CompleteWrite(k) ==
    /\ BillingIdle
    /\ k \in 1..Len(billing.flights)
    /\ \E f \in {billing.flights[k]} :
       \E written \in {HandlerWrite(StoresOf(billing), f.call, f.user, f.args,
                                    f.decision)} :
           billing' = [WithStores(billing, written) EXCEPT
                          !.flights = WithoutFlight(@, k),
                          !.answer = BillingAnswer(f.call, f.user, f.args, f.decision,
                                                   StoresOf(billing), written)]
    /\ UNCHANGED OtherThanBilling

\* The answer reaches the caller.
ReturnBillingAnswer ==
    /\ ~BillingIdle
    /\ billing' = [billing EXCEPT !.answer = NoAnswer]
    /\ UNCHANGED OtherThanBilling

NextBilling ==
    \/ \E user \in {AdminA, DispatcherA}, payload \in InvitationPayloads :
           CreateInvitation(user, payload)
    \/ \E invitation_id \in 1..MaxInvitations : ActivateInvitation(AdminA, invitation_id)
    \/ \E invitation_id \in 1..MaxInvitations : CancelInvitation(AdminA, invitation_id)
    \/ \E k \in 1..MaxConcurrent : CompleteWrite(k)
    \/ ReturnBillingAnswer

SpecBilling == InitBilling /\ [][NextBilling]_vars

----------------
(* SpecAssigned: orders are created and assigned, an address is made to    *)
(* fail, and routes are optimized from the assigned orders                 *)

CreateInputs ==
    {<<"org-1", AddrAB>>, <<"org-1", AddrX>>, <<"org-1", AddrBlank>>,
     <<"org-1", AddrXPadded>>, <<"org-2", AddrAB>>}

AssignedPayloads ==
    {RouteOptimizeRequest("driver-1", stops, None, None) :
        stops \in {None, Some(<<>>), Some(SubSeq(StopPool, 1, 2))}}

AssignedEnvs ==
    {Env("in-memory", "in-memory", {}), Env("amazon", "amazon", {<<0, 1>>})}

NextAssigned ==
    \/ \E c \in CreateInputs : create_order(c[1], c[2])
    \/ \E org_id \in Orgs, order_id \in 1..MaxOrders :
           assign_order(org_id, order_id, "driver-1")
    \/ resp = NoResp /\ set_in_memory_geocode_failure(AddrX)
    \/ upsert_driver_location("org-1", "driver-1", LocL1.lat, LocL1.lng)
    \/ \E payload \in AssignedPayloads, org_id \in Orgs, env \in AssignedEnvs :
           optimize_driver_route(payload, org_id, env)
    \/ ReturnResponse

SpecAssigned == Init /\ [][NextAssigned]_vars

----------------------------------------------------------------------------
(* SpecStart: drivers report locations and routes are optimized over       *)
(* explicit stop lists                                                     *)

MaxStops == 3

Drivers == {"driver-1", "driver-2"}

StartPayloads ==
    {RouteOptimizeRequest(driver_id, Some(SubSeq(StopPool, 1, k)), start[1], start[2]) :
        driver_id \in Drivers, k \in 0..MaxStops,
        start \in {<<None, None>>, <<Some(StartP0.lat), Some(StartP0.lng)>>,
                   <<Some(StartP0.lat), None>>}}

StartEnvs ==
    {Env("in-memory", "in-memory", {}), Env("in-memory", "amazon", {}),
     Env("in-memory", "amazon", {<<1, 2>>})}

NextStart ==
    \/ \E org_id \in Orgs, sub \in Drivers, c \in {LocL1, LocL2} :
           upsert_driver_location(org_id, sub, c.lat, c.lng)
    \/ \E payload \in StartPayloads, org_id \in Orgs, env \in StartEnvs :
           optimize_driver_route(payload, org_id, env)
    \/ ReturnResponse

SpecStart == Init /\ [][NextStart]_vars

----------------------------------------------------------------------------
(* Properties of solve_open_route (SpecSolve) *)

\* C2: for a square duration matrix over two or more real nodes and a valid
\* start_index, a returned sequence begins with start_index, holds every real
\* node index exactly once, and never holds the synthetic sink index.
C2_SequenceShape ==
    solveOut.phase = "returned" /\ ListLen(solveIn.duration_seconds) >= 2 =>
        LET node_count == ListLen(solveIn.duration_seconds)
            sequence == solveOut.value
        IN  /\ sequence # <<>>
            /\ sequence[1] = solveIn.start_index
            /\ Len(sequence) = node_count
            /\ {sequence[k] : k \in 1..Len(sequence)} = 0..(node_count - 1)
            /\ \A k \in 1..Len(sequence) : sequence[k] # node_count

\* Three real nodes, a start other than node 0, and a route that does not
\* visit the others in index order.
C2_Witness ==
    /\ solveOut.phase = "returned"
    /\ ListLen(solveIn.duration_seconds) = 3
    /\ solveIn.start_index = 1
    /\ solveOut.value = <<1, 2, 0>>

----------------------------------------------------------------------------
(* Properties of the geocoders (SpecGeo) *)

\* C9: after any sequence of set_override, set_failure, reset and geocode
\* calls on the in-memory geocoder, no normalized address is in both the
\* success map and the failure map.
C9_MapsDisjoint == DOMAIN overrides \cap DOMAIN failures = {}

\* Both maps hold an address, "a b" has a failure registered and a text that
\* normalizes to it has been geocoded.
C9_Witness ==
    /\ DOMAIN overrides # {}
    /\ _normalize_address(AddrAB) \in DOMAIN failures
    /\ lastGeo # NoGeo
    /\ lastGeo.kind = "in-memory"
    /\ lastGeo.address = AddrABVariant
    /\ lastGeo.point = None

\* The coordinate an inline text stands for.
InlineCoordinate(address) ==
    IF address = AddrInline
    THEN GeocodePoint(InlineP.lat, InlineP.lng, "inline-latlng")
    ELSE GeocodePoint(InlineNegP.lat, InlineNegP.lng, "inline-latlng")

\* C10: an address that is two comma-separated numbers within the latitude
\* and longitude ranges is returned as exactly that coordinate by both
\* geocoders, whatever failure or override is registered for the text and
\* whatever the place index would answer, and no backend is consulted.
C10_InlineBypass ==
    lastGeo # NoGeo /\ lastGeo.address \in {AddrInline, AddrInlineSpaced} =>
        /\ lastGeo.point = Some(InlineCoordinate(lastGeo.address))
        /\ lastGeo.backend = <<>>

\* The in-memory geocoder answered "1,2" with (1.0, 2.0) while a failure was
\* registered for that very text.
C10_Witness ==
    /\ lastGeo # NoGeo
    /\ lastGeo.kind = "in-memory"
    /\ lastGeo.address = AddrInline
    /\ _normalize_address(AddrInline) \in DOMAIN failures
    /\ lastGeo.point = Some(InlineCoordinate(AddrInline))

----------------------------------------------------------------------------
(* Properties of POST /routes/optimize (SpecAssigned, SpecStart) *)

Succeeded == resp # NoResp /\ resp.status_code = 200

OrderIdCount(list, order_id) ==
    Cardinality({k \in 1..Len(list) : list[k].order_id = order_id})

\* C1: in every successful optimize response the order ids of ordered_stops
\* are those of the resolved stops: the same number of entries, and every
\* stop's order id as often among the ordered stops as among the stops.
C1_StopSetPreserved ==
    Succeeded =>
        /\ Len(resp.body[1].ordered_stops) = Len(resp.stops)
        /\ \A k \in 1..Len(resp.stops) :
               OrderIdCount(resp.body[1].ordered_stops, resp.stops[k].order_id)
                   = OrderIdCount(resp.stops, resp.stops[k].order_id)

\* A route over three assigned orders that the solver visits in another
\* order than they were resolved in.
C1_Witness ==
    /\ Succeeded
    /\ resp.fetched_assigned
    /\ Len(resp.stops) = 3
    /\ resp.route_node_sequence = Some(<<0, 3, 1, 2>>)

\* The assigned orders the handler derives stops from, and those among them
\* whose delivery is blank or which the geocoder of the request cannot place.
AssignedOrders == get_assigned_orders_for_driver(resp.org_id, resp.payload.driver_id)

Unresolvable(order) ==
    \/ Strip(order.delivery) = <<>>
    \/ Geocode(resp.env, Strip(order.delivery)).point = None

UnresolvableIds ==
    [k \in 1..Len(SelectSeq(AssignedOrders, Unresolvable)) |->
        SelectSeq(AssignedOrders, Unresolvable)[k].id]

DerivedWithFailures ==
    resp # NoResp /\ resp.fetched_assigned /\ UnresolvableIds # <<>>

\* C3: when stops are derived from the assigned orders and some delivery
\* addresses are blank or cannot be geocoded, the call answers with one error
\* that names every such order id, and every address that is not blank has
\* been handed to the geocoder, those after the first failure included.
C3_EveryFailureNamed ==
    DerivedWithFailures =>
        /\ resp.status_code = 400
        /\ resp.error # None
        /\ resp.error[1].order_ids = UnresolvableIds
        /\ \A k \in 1..Len(AssignedOrders) :
               Strip(AssignedOrders[k].delivery) # <<>> =>
                   \E c \in 1..Len(resp.geocode_calls) :
                       resp.geocode_calls[c] = Strip(AssignedOrders[k].delivery)

\* Three assigned orders: the first cannot be geocoded, the second can, the
\* third cannot; the error names the first and the third.
C3_Witness ==
    /\ DerivedWithFailures
    /\ Len(AssignedOrders) = 3
    /\ Unresolvable(AssignedOrders[1])
    /\ ~Unresolvable(AssignedOrders[2])
    /\ Unresolvable(AssignedOrders[3])
    /\ resp.error[1].order_ids = <<AssignedOrders[1].id, AssignedOrders[3].id>>

\* C4: when some assigned order's address cannot be resolved, the request
\* answers with an error, never with a route, and neither the matrix provider
\* nor the solver has been called.
C4_AllOrNothing ==
    DerivedWithFailures =>
        /\ resp.status_code # 200
        /\ resp.body = None
        /\ resp.matrix = None
        /\ resp.route_node_sequence = None

\* Two of three assigned orders could have been routed; the third could not.
C4_Witness ==
    /\ DerivedWithFailures
    /\ Len(AssignedOrders) = 3
    /\ Len(UnresolvableIds) = 1
    /\ resp.body = None
    /\ resp.matrix = None

\* C5: whenever the request carries a stop list, an empty one included, the
\* stops used are that list, the assigned orders are not fetched and the
\* geocoder is not called.
C5_ExplicitStopsVerbatim ==
    resp # NoResp /\ resp.payload.stops # None =>
        /\ resp.stops = resp.payload.stops[1]
        /\ ~resp.fetched_assigned
        /\ resp.geocode_calls = <<>>

\* C6: the start position is the request's start coordinates when both are
\* given; otherwise the location stored for the driver in the caller's
\* organization; otherwise the first stop's coordinate.
C6_StartPriority ==
    resp # NoResp /\ resp.stops # <<>> =>
        /\ resp.start # None
        /\ resp.start[1] =
               IF resp.payload.start_lat # None /\ resp.payload.start_lng # None
               THEN <<resp.payload.start_lat[1], resp.payload.start_lng[1]>>
               ELSE IF <<resp.org_id, resp.payload.driver_id>> \in DOMAIN locations
               THEN <<locations[<<resp.org_id, resp.payload.driver_id>>].lat,
                      locations[<<resp.org_id, resp.payload.driver_id>>].lng>>
               ELSE <<resp.stops[1].lat, resp.stops[1].lng>>

\* A request of org-1 without a start longitude for driver-1, who has
\* reported one location in org-1 and a same-named driver another in org-2.
C6_Witness ==
    /\ resp # NoResp
    /\ resp.stops # <<>>
    /\ resp.org_id = "org-1"
    /\ resp.payload.driver_id = "driver-1"
    /\ resp.payload.start_lat # None
    /\ resp.payload.start_lng = None
    /\ <<"org-1", "driver-1">> \in DOMAIN locations
    /\ <<"org-2", "driver-1">> \in DOMAIN locations
    /\ locations[<<"org-1", "driver-1">>].lat # locations[<<"org-2", "driver-1">>].lat
    /\ resp.start = Some(<<locations[<<"org-1", "driver-1">>].lat,
                           locations[<<"org-1", "driver-1">>].lng>>)

\* The sum of a list of floats, added in order.
RECURSIVE SumOf(_)
SumOf(values) ==
    IF values = <<>> THEN Zero
    ELSE NumAdd(SumOf(SubSeq(values, 1, Len(values) - 1)), values[Len(values)])

\* C7: in a successful response the k-th ordered stop is the stop of the
\* (k+1)-th node of the solver sequence, its distance and duration from the
\* previous stop are the matrix cells [k-th node][(k+1)-th node], and the
\* totals before rounding are the sums of these legs.
C7_LegsFromPreviousNode ==
    Succeeded =>
        LET sequence == resp.route_node_sequence[1]
            ordered_stops == resp.body[1].ordered_stops
            matrix == resp.matrix[1]
        IN  /\ Len(ordered_stops) = Len(sequence) - 1
            /\ \A k \in 1..Len(ordered_stops) :
                   /\ ordered_stops[k].order_id = resp.stops[sequence[k + 1]].order_id
                   /\ ordered_stops[k].distance_from_previous_meters
                          = matrix.distance_meters[sequence[k]][sequence[k + 1]]
                   /\ ordered_stops[k].duration_from_previous_seconds
                          = matrix.duration_seconds[sequence[k]][sequence[k + 1]]
            /\ resp.totals[1].total_distance =
                   SumOf([k \in 1..Len(ordered_stops) |->
                             ordered_stops[k].distance_from_previous_meters])
            /\ resp.totals[1].total_duration =
                   SumOf([k \in 1..Len(ordered_stops) |->
                             ordered_stops[k].duration_from_previous_seconds])

\* A route from the request's start coordinates whose second leg runs from
\* stop 2 to stop 1, a leg that is not as long as the one from the start to
\* stop 1.
C7_Witness ==
    /\ Succeeded
    /\ resp.payload.start_lng # None
    /\ resp.route_node_sequence = Some(<<0, 2, 1>>)
    /\ resp.matrix[1].distance_meters[2][1] # resp.matrix[1].distance_meters[0][1]
    /\ resp.body[1].ordered_stops[2].distance_from_previous_meters
           = resp.matrix[1].distance_meters[2][1]

\* What a successful response to a request with one stop holds, up to the
\* totals of the response body.
SingleStopLeg ==
    /\ Len(resp.body[1].ordered_stops) = 1
    /\ resp.body[1].ordered_stops[1].sequence = 1
    /\ resp.body[1].ordered_stops[1].order_id = resp.stops[1].order_id
    /\ resp.body[1].ordered_stops[1].distance_from_previous_meters
           = resp.matrix[1].distance_meters[0][1]
    /\ resp.body[1].ordered_stops[1].duration_from_previous_seconds
           = resp.matrix[1].duration_seconds[0][1]

\* C8 as stated: a request with one stop returns one ordered stop, sequence
\* 1, that stop's order id, the leg being the matrix cell [0][1], and the
\* totals of the response equal to that leg.
C8_TotalsEqualLeg ==
    Succeeded /\ Len(resp.stops) = 1 =>
        /\ SingleStopLeg
        /\ resp.body[1].total_distance_meters = resp.matrix[1].distance_meters[0][1]
        /\ resp.body[1].total_duration_seconds = resp.matrix[1].duration_seconds[0][1]

\* C8: a request with one stop returns one ordered stop, sequence 1, that
\* stop's order id, the leg being the matrix cell [0][1]; the totals before
\* rounding equal that leg and the totals of the response are that leg
\* rounded to two decimals.
C8_SingleStop ==
    Succeeded /\ Len(resp.stops) = 1 =>
        /\ SingleStopLeg
        /\ resp.totals[1].total_distance = resp.matrix[1].distance_meters[0][1]
        /\ resp.totals[1].total_duration = resp.matrix[1].duration_seconds[0][1]
        /\ resp.body[1].total_distance_meters
               = Round2(resp.matrix[1].distance_meters[0][1])
        /\ resp.body[1].total_duration_seconds
               = Round2(resp.matrix[1].duration_seconds[0][1])

\* One stop, reached over a leg with more than two decimals: the response's
\* total distance is not the leg's.
C8_Witness ==
    /\ Succeeded
    /\ Len(resp.stops) = 1
    /\ resp.route_node_sequence = Some(<<0, 1>>)
    /\ SingleStopLeg
    /\ resp.body[1].total_distance_meters # resp.matrix[1].distance_meters[0][1]

----------------------------------------------------------------------------
(* Properties of repeated geocoding (SpecRepeat) *)

\* C11: two geocode() calls of the in-memory geocoder in one cache state,
\* for the same text or for two texts with the same normal form (trimmed,
\* whitespace collapsed, lower case), return the same result.
C11_SameNormalFormSameResult ==
    lastGeo # NoGeo
        /\ _normalize_address(lastGeo.first.address)
               = _normalize_address(lastGeo.second.address) =>
        lastGeo.first.point = lastGeo.second.point

\* "a b" and " A  b" both come back as the override registered for one of
\* them.
C11_Witness ==
    /\ lastGeo # NoGeo
    /\ lastGeo.first.address = AddrAB
    /\ lastGeo.second.address = AddrABVariant
    /\ lastGeo.first.point = Some(GeocodePoint(OverrideP.lat, OverrideP.lng,
                                               "in-memory-override"))
    /\ lastGeo.second.point = lastGeo.first.point

----------------------------------------------------------------------------
(* Properties of the cache lookup (SpecCache) *)

\* C12: with either geocoder, a text that is not an inline coordinate is
\* looked up by its normal form first: a registered failure gives not-found,
\* a registered result gives that result, and in both cases no backend is
\* called.
C12_CacheFirst ==
    lastGeo # NoGeo
        /\ Strip(lastGeo.address) # <<>>
        /\ _parse_inline_lat_lng(lastGeo.address) = None =>
        /\ _normalize_address(lastGeo.address) \in DOMAIN lastGeo.failures =>
               lastGeo.point = None /\ lastGeo.backend = <<>>
        /\ _normalize_address(lastGeo.address) \in DOMAIN lastGeo.overrides =>
               /\ lastGeo.point
                      = Some(lastGeo.overrides[_normalize_address(lastGeo.address)])
               /\ lastGeo.backend = <<>>

----------------------------------------------------------------------------
(* Properties of the backend selection (SpecSelect) *)

\* The flag texts that switch the in-memory backend on, and the names that
\* name a live resource.
FlagIsOn ==
    probe.flag \in {Some(<<"t", "r", "u", "e">>), Some(<<" ", "O", "N", " ">>),
                    Some(<<"1">>), Some(<<"Y", "e", "s">>)}

NameIsSet ==
    probe.name \in {Some(<<" ", "i", "d", "x">>), Some(<<"c", "a", "l", "c", " ">>)}

ReturnedSingleton ==
    probe.returned =
        IF probe.call = "get_address_geocoder"
        THEN _IN_MEMORY_ADDRESS_GEOCODER
        ELSE _IN_MEMORY_ROUTE_MATRIX_PROVIDER

\* C13: get_address_geocoder and get_route_matrix_provider always return a
\* backend: the shared in-memory instance when the flag is on, when the
\* resource name is unset or blank, and when constructing the live backend
\* raises; a live backend exactly when the flag is off, the name is set and
\* the construction succeeds.
C13_SelectionNeverErrors ==
    probe # NoProbe =>
        IF ~FlagIsOn /\ NameIsSet /\ probe.boto3 = "ok"
        THEN probe.returned.instance
                 \in {"AmazonLocationAddressGeocoder",
                      "AmazonLocationRouteMatrixProvider"}
        ELSE ReturnedSingleton

\* The flag is " ON " and a place index is named: the shared in-memory
\* geocoder comes back although the live one could be constructed.
C13_Witness ==
    /\ probe # NoProbe
    /\ probe.call = "get_address_geocoder"
    /\ probe.flag = Some(<<" ", "O", "N", " ">>)
    /\ probe.name = Some(<<" ", "i", "d", "x">>)
    /\ probe.boto3 = "ok"
    /\ probe.returned = _IN_MEMORY_ADDRESS_GEOCODER

----------------------------------------------------------------------------
(* Properties of the matrix providers (SpecMatrix) *)

MatrixCalculated == probe # NoProbe /\ probe.call = "calculate_matrix"

\* m has one row per point and one cell per point in every row, and every
\* cell [i][i] is zero.
SquareZeroDiagonal(m, n) ==
    /\ DOMAIN m = 0..(n - 1)
    /\ \A i \in 0..(n - 1) : DOMAIN m[i] = 0..(n - 1) /\ m[i][i] = Zero

\* C14: for both providers and every list of n points the distance and the
\* duration matrix returned are n x n with a zero diagonal.
C14_SquareZeroDiagonal ==
    MatrixCalculated =>
        /\ SquareZeroDiagonal(probe.returned.distance_meters, ListLen(probe.points))
        /\ SquareZeroDiagonal(probe.returned.duration_seconds, ListLen(probe.points))

\* The cell of the road network for positions i and j of the call.
ServiceMeters(i, j) ==
    RoadDistance(haversine_meters(probe.points[i][2], probe.points[i][1],
                                  probe.points[j][2], probe.points[j][1]))

\* C15: the live provider returns, for every cell the service reports as
\* errored, the sentinel 1e9 as distance and as duration, and for every
\* other cell the distance and the duration of the service; a result comes
\* back whatever cells are errored.
C15_ErroredCellsBecomeSentinel ==
    MatrixCalculated /\ probe.provider = "amazon" =>
        \A i, j \in 0..(ListLen(probe.points) - 1) :
            IF <<i, j>> \in probe.errored
            THEN /\ probe.returned.distance_meters[i][j] = SentinelCost
                 /\ probe.returned.duration_seconds[i][j] = SentinelCost
            ELSE /\ probe.returned.distance_meters[i][j] = ServiceMeters(i, j)
                 /\ probe.returned.duration_seconds[i][j]
                        = RoadDuration(ServiceMeters(i, j))

\* Three points, two cells errored: the result has the sentinel in both
\* matrices at an errored cell and a road distance elsewhere.
C15_Witness ==
    /\ MatrixCalculated
    /\ probe.provider = "amazon"
    /\ ListLen(probe.points) = 3
    /\ probe.errored = {<<0, 2>>, <<2, 1>>}
    /\ probe.returned.duration_seconds[2][1] = SentinelCost
    /\ probe.returned.distance_meters[1][2] \notin {SentinelCost, Zero}

----------------------------------------------------------------------------
(* Properties of the order endpoints (SpecOrders) *)

\* The ids of the orders of org_id that are assigned to driver_id and are
\* neither Delivered nor Failed.
LiveAssignedIds(org_id, driver_id) ==
    {k \in 1..Len(orders) :
        /\ orders[k].org_id = org_id
        /\ orders[k].assigned_to = Some(driver_id)
        /\ orders[k].status \notin {"Delivered", "Failed"}}

\* C16: whatever order operations came before, the stops an optimize request
\* derives for a driver are the orders of the caller's organization that are
\* assigned to that driver and are neither Delivered nor Failed, one stop
\* for each.
C16_DerivedStopsAreLiveAssigned ==
    resp # NoResp /\ resp.fetched_assigned =>
        /\ {resp.stops[k].order_id : k \in 1..Len(resp.stops)}
               = LiveAssignedIds(resp.org_id, resp.payload.driver_id)
        /\ Len(resp.stops)
               = Cardinality(LiveAssignedIds(resp.org_id, resp.payload.driver_id))

\* Two orders of org-1 assigned to driver-1, the first Delivered since: the
\* route of driver-1 has the second order only.
C16_Witness ==
    /\ resp # NoResp
    /\ resp.fetched_assigned
    /\ resp.org_id = "org-1"
    /\ resp.payload.driver_id = "driver-1"
    /\ Len(orders) = 2
    /\ orders[1].assigned_to = Some("driver-1")
    /\ orders[1].status = "Delivered"
    /\ orders[1].org_id = "org-1"
    /\ Len(resp.stops) = 1
    /\ resp.stops[1].order_id = 2

\* The status changes of the transition table.
TransitionPairs ==
    {<<"Created", "Assigned">>, <<"Created", "Failed">>,
     <<"Assigned", "PickedUp">>, <<"Assigned", "EnRoute">>,
     <<"Assigned", "Delivered">>, <<"Assigned", "Failed">>,
     <<"PickedUp", "EnRoute">>, <<"PickedUp", "Delivered">>,
     <<"PickedUp", "Failed">>,
     <<"EnRoute", "Delivered">>, <<"EnRoute", "Failed">>,
     <<"Failed", "Assigned">>}

StatusUpdated == probe # NoProbe /\ probe.call = "update_order_status"

\* The order a single-order call names, as it was stored before the call;
\* None when no order has that id.
Target ==
    IF probe.args.order_ids[1] \in 1..Len(probe.before)
    THEN Some(probe.before[probe.args.order_ids[1]])
    ELSE None

\* C18: a status update by an Admin or Dispatcher on an order of their
\* organization is accepted exactly when the requested status is the current
\* one or the table allows the change, and is answered with 400 otherwise;
\* every update that is not accepted leaves the store as it was.
C18_TransitionTable ==
    StatusUpdated =>
        /\ probe.status_code # 200 => probe.after = probe.before
        /\ (probe.user \in Staff /\ Target # None
            /\ Target[1].org_id = probe.user.org_id) =>
               IF \/ probe.args.status = Target[1].status
                  \/ <<Target[1].status, probe.args.status>> \in TransitionPairs
               THEN /\ probe.status_code = 200
                    /\ probe.after =
                           [probe.before EXCEPT ![probe.args.order_ids[1]].status =
                                                    probe.args.status]
               ELSE probe.status_code = 400

\* A Delivered order asked to become Assigned: refused with 400.
C18_Witness ==
    /\ StatusUpdated
    /\ Target # None
    /\ Target[1].status = "Delivered"
    /\ probe.args.status = "Assigned"
    /\ probe.status_code = 400
    /\ probe.after = probe.before

SingleOrderCalls == {"get_order", "assign_order", "unassign_order", "update_order_status"}

BulkCalls == {"bulk_assign_orders", "bulk_unassign_orders"}

\* The request names an order of another organization than the caller's.
NamesForeignOrder ==
    \E k \in 1..Len(probe.args.order_ids) :
        /\ probe.args.order_ids[k] \in 1..Len(probe.before)
        /\ probe.before[probe.args.order_ids[k]].org_id # probe.user.org_id

\* C19: no call changes an order of another organization than the caller's
\* and no response carries one; get, assign, unassign and status update on
\* such an order answer 404 (403 when the caller's role does not admit them
\* to the endpoint), and so do the bulk operations with a driver id.
C19_TenantIsolation ==
    probe # NoProbe =>
        /\ \A k \in 1..Len(probe.before) :
               probe.before[k].org_id # probe.user.org_id =>
                   probe.after[k] = probe.before[k]
        /\ \A k \in 1..Len(probe.returned) :
               probe.returned[k].org_id = probe.user.org_id
        /\ (probe.call \in SingleOrderCalls /\ NamesForeignOrder) =>
               probe.status_code =
                   IF probe.user \notin Staff
                      /\ probe.call \in {"assign_order", "unassign_order"}
                   THEN 403 ELSE 404
        /\ (probe.call \in BulkCalls /\ NamesForeignOrder /\ probe.user \in Staff
            /\ (probe.call = "bulk_assign_orders" => probe.args.driver_id # " ")) =>
               probe.status_code = 404

\* The Admin of org-2 bulk-unassigns an order of org-2 and one of org-1:
\* 404, and the order of org-1 keeps its driver.
C19_Witness ==
    /\ probe # NoProbe
    /\ probe.call = "bulk_unassign_orders"
    /\ probe.user = AdminB
    /\ probe.args.order_ids = <<1, 2>>
    /\ Len(probe.before) = 2
    /\ probe.before[1].org_id = "org-2"
    /\ probe.before[1].assigned_to # None
    /\ probe.before[2].org_id = "org-1"
    /\ probe.before[2].assigned_to # None
    /\ probe.after[1].assigned_to = None
    /\ probe.after[2] = probe.before[2]
    /\ probe.status_code = 404

\* C20: a caller whose only role, as the role gate reads it, is Driver
\* changes the status of an order only when the order is assigned to the
\* caller's sub; otherwise the answer is 403 and the store is unchanged.
C20_DriverOwnOrdersOnly ==
    (StatusUpdated /\ _normalized_role_set(probe.user.groups) = {Lower(ROLE_DRIVER)}
     /\ Target # None /\ Target[1].org_id = probe.user.org_id
     /\ Target[1].assigned_to # Some(probe.user.sub)) =>
        /\ probe.status_code = 403
        /\ probe.after = probe.before

----------------------------------------------------------------------------
(* Properties of the event loop (SpecLoop) *)

\* C17: while an optimize request is inside its solver search, the search
\* runs on a worker and the thread of the event loop is not held by that
\* request, so that another request can be run.
C17_SolverOffLoopThread ==
    loop.optimize = "solving" =>
        /\ loop.solver = "worker"
        /\ loop.thread # "optimize"

----------------------------------------------------------------------------
(* The orders webhook *)

WebhookAccepted == probe.call = "order_ingest_webhook" /\ probe.status_code = 200

SourceOf(order) == IF order.source = None THEN "external" ELSE order.source[1]

\* The orders of store that carry the key (org_id, source, external id).
KnownAs(store, org_id, source, external_order_id) ==
    {k \in 1..Len(store) :
        /\ store[k].org_id = org_id
        /\ SourceOf(store[k]) = source
        /\ store[k].external_order_id = Some(external_order_id)}

UpdatedInPlace(i, k) ==
    /\ probe.returned[i].outcome = "updated"
    /\ probe.returned[i].id = k
    /\ probe.after[k].id = probe.before[k].id
    /\ probe.after[k].status = probe.before[k].status
    /\ probe.after[k].assigned_to = probe.before[k].assigned_to
    /\ probe.after[k].created_at = probe.before[k].created_at
    /\ probe.after[k].org_id = probe.before[k].org_id
    /\ probe.after[k].delivery = probe.args.payload.orders[i].delivery

CreatedNew(i) ==
    /\ probe.returned[i].outcome = "created"
    /\ probe.returned[i].id \in (Len(probe.before) + 1)..Len(probe.after)
    /\ probe.after[probe.returned[i].id].status = "Created"
    /\ probe.after[probe.returned[i].id].assigned_to = None
    /\ probe.after[probe.returned[i].id].delivery = probe.args.payload.orders[i].delivery

CreatedCount == Cardinality({i \in 1..Len(probe.returned) : probe.returned[i].outcome = "created"})

\* C21: the webhook upserts by (org_id, source, external_order_id): an
\* accepted post whose key is already stored rewrites that order's payload
\* fields in place, keeps its id, status, assigned_to and created_at and
\* reports it as updated; an unknown key is stored as a new Created order;
\* the store never holds two orders with the same key.
C21_WebhookUpsertsByExternalId ==
    /\ \A k, m \in 1..Len(orders) :
           (/\ k # m
            /\ orders[k].external_order_id # None
            /\ orders[k].external_order_id = orders[m].external_order_id
            /\ orders[k].org_id = orders[m].org_id)
           => SourceOf(orders[k]) # SourceOf(orders[m])
    /\ WebhookAccepted =>
           /\ Len(probe.returned) = Len(probe.args.payload.orders)
           /\ Len(probe.after) = Len(probe.before) + CreatedCount
           /\ \A i \in 1..Len(probe.args.payload.orders) :
                  \E known \in {KnownAs(probe.before, probe.args.payload.org_id,
                                        probe.args.payload.source,
                                        probe.args.payload.orders[i].external_order_id)} :
                      IF known = {} THEN CreatedNew(i)
                      ELSE \A k \in known : UpdatedInPlace(i, k)

\* A re-post for an order that has been assigned since, with a new address.
C21_Witness ==
    /\ WebhookAccepted
    /\ \E i \in 1..Len(probe.args.payload.orders) :
           \E k \in KnownAs(probe.before, probe.args.payload.org_id,
                            probe.args.payload.source,
                            probe.args.payload.orders[i].external_order_id) :
               /\ probe.before[k].status = "Assigned"
               /\ probe.before[k].assigned_to # None
               /\ probe.before[k].delivery # probe.args.payload.orders[i].delivery
               /\ probe.returned[i].outcome = "updated"

----------------------------------------------------------------------------
(* The life of an order under the order endpoints (SpecOrders) *)

\* C26: an order whose status is Delivered keeps that status under every
\* later operation of the order endpoints and of the webhook.
C26_DeliveredIsAbsorbing ==
    [][\A k \in 1..Len(orders) :
          orders[k].status = "Delivered" => orders'[k].status = "Delivered"]_vars

\* The status update and the webhook, taken alone, keep a Delivered order
\* Delivered.
DeliveredKeptByStatusAndWebhook ==
    (probe.call \in {"update_order_status", "order_ingest_webhook"}) =>
        \A k \in 1..Len(probe.before) :
            probe.before[k].status = "Delivered" => probe.after[k].status = "Delivered"

\* C27: every stored order whose status is Assigned, PickedUp or EnRoute
\* names a driver in assigned_to.
C27_InProgressOrdersHaveADriver ==
    \A k \in 1..Len(orders) :
        orders[k].status \in {"Assigned", "PickedUp", "EnRoute"} =>
            orders[k].assigned_to # None

\* The request names an id that is no order of the caller's organization.
NamesUnresolvedOrder ==
    \E k \in 1..Len(probe.args.order_ids) :
        /\ probe.args.order_ids[k] # BlankId
        /\ \/ probe.args.order_ids[k] \notin 1..Len(probe.before)
           \/ probe.before[probe.args.order_ids[k]].org_id # probe.user.org_id

\* C28: a bulk assign or bulk unassign that names an id which is no order of
\* the caller's organization fails and leaves every order as it was.
C28_BulkAllOrNothing ==
    (probe.call \in BulkCalls /\ NamesUnresolvedOrder) =>
        /\ probe.status_code # 200
        /\ probe.after = probe.before

\* A bulk call that names an unresolved id first changes nothing.
UnresolvedFirstChangesNothing ==
    (/\ probe.call \in BulkCalls
     /\ probe.args.order_ids[1] # BlankId
     /\ \/ probe.args.order_ids[1] \notin 1..Len(probe.before)
        \/ probe.before[probe.args.order_ids[1]].org_id # probe.user.org_id) =>
        /\ probe.status_code # 200
        /\ probe.after = probe.before

----------------------------------------------------------------------------
(* The problem handed to the solver (SpecSolve) *)

SolverWasRun == solveOut # NoSolve /\ ListLen(solveIn.duration_seconds) >= 2

\* c is int(x): the whole number with c <= x < c + 1, x held in thousandths.
IsTruncationOf(c, x) ==
    /\ c * 1000 <= x.w * 1000 + x.f
    /\ x.w * 1000 + x.f < (c + 1) * 1000

\* C23: when the solver is run over n >= 2 real nodes, its cost matrix has
\* the n real nodes and one more, the sink n: real to sink costs 0, sink to
\* real costs 10^9, sink to sink costs 0, real to real costs the truncated
\* input duration; the one vehicle starts at start_index and ends at the sink.
C23_SolverCostMatrix ==
    SolverWasRun =>
        \E n \in {ListLen(solveIn.duration_seconds)} :
            /\ DOMAIN solveOut.costs = 0..n
            /\ \A i \in 0..n : DOMAIN solveOut.costs[i] = 0..n
            /\ \A i \in 0..(n - 1) : solveOut.costs[i][n] = 0
            /\ \A j \in 0..(n - 1) : solveOut.costs[n][j] = 1000000000
            /\ solveOut.costs[n][n] = 0
            /\ \A i, j \in 0..(n - 1) :
                   IsTruncationOf(solveOut.costs[i][j], solveIn.duration_seconds[i][j])
            /\ solveOut.manager.num_nodes = n + 1
            /\ solveOut.manager.num_vehicles = 1
            /\ solveOut.manager.starts = <<solveIn.start_index>>
            /\ solveOut.manager.ends = <<n>>

\* Three real nodes with a duration that has a fractional part, started at
\* node 1.
C23_Witness ==
    /\ SolverWasRun
    /\ ListLen(solveIn.duration_seconds) = 3
    /\ solveIn.start_index = 1
    /\ solveIn.duration_seconds[0][1] = Num(1, 250)
    /\ solveOut.costs[0][1] = 1

----------------------------------------------------------------------------
(* The lookups of one optimize request (SpecAssigned) *)

DerivedFromAssigned == resp # NoResp /\ resp.fetched_assigned

\* The orders named by the error of the request, when there is one.
ReportedUnresolved ==
    IF resp.error = None THEN {}
    ELSE {resp.error[1].order_ids[k] : k \in 1..Len(resp.error[1].order_ids)}

\* The stop the request derived for the order, as a set of coordinates.
StopOf(order) ==
    {Coord(resp.stops[k].lat, resp.stops[k].lng) :
        k \in {k \in 1..Len(resp.stops) : resp.stops[k].order_id = order.id}}

\* C24: within one optimize request that derives its stops from the
\* assigned orders, no trimmed delivery address is handed to the geocoder
\* twice, whether its lookup succeeded or failed, only addresses of the
\* assigned orders are looked up, and two orders with the same trimmed
\* address are both unresolved or both get the same coordinates.
C24_OneLookupPerAddress ==
    DerivedFromAssigned =>
        /\ \A c, d \in 1..Len(resp.geocode_calls) :
               c # d => resp.geocode_calls[c] # resp.geocode_calls[d]
        /\ \A c \in 1..Len(resp.geocode_calls) :
               \E k \in 1..Len(AssignedOrders) :
                   Strip(AssignedOrders[k].delivery) = resp.geocode_calls[c]
        /\ \A k, m \in 1..Len(AssignedOrders) :
               Strip(AssignedOrders[k].delivery) = Strip(AssignedOrders[m].delivery) =>
                   /\ AssignedOrders[k].id \in ReportedUnresolved
                          <=> AssignedOrders[m].id \in ReportedUnresolved
                   /\ StopOf(AssignedOrders[k]) = StopOf(AssignedOrders[m])

\* Three assigned orders, two of them with the same address up to
\* surrounding blanks, whose lookup fails: one lookup for the two.
C24_Witness ==
    /\ DerivedFromAssigned
    /\ Len(AssignedOrders) = 3
    /\ AssignedOrders[1].delivery = AddrX
    /\ AssignedOrders[3].delivery = AddrXPadded
    /\ AssignedOrders[2].delivery = AddrAB
    /\ resp.geocode_calls = <<AddrX, AddrAB>>
    /\ ReportedUnresolved = {AssignedOrders[1].id, AssignedOrders[3].id}

\* Two assigned orders with the same address, both resolved to one point.
SharedAddressResolved ==
    /\ DerivedFromAssigned
    /\ Len(AssignedOrders) = 2
    /\ AssignedOrders[1].delivery = AssignedOrders[2].delivery
    /\ Len(resp.stops) = 2
    /\ resp.geocode_calls = <<AddrAB>>

----------------------------------------------------------------------------
(* The frame of an optimize request (SpecAssigned) *)

OptimizeStep == resp = NoResp /\ resp' # NoResp

\* C25: an optimize request, answered with a route or with an error, leaves
\* the order store, the location store and the geocoder's _overrides and
\* _failures as they were.
C25_OptimizeWritesNothing ==
    [][OptimizeStep =>
          /\ orders' = orders
          /\ locations' = locations
          /\ overrides' = overrides
          /\ failures' = failures]_vars

\* A request answered with a route from two assigned orders, with every
\* store holding something.
C25_Witness ==
    /\ DerivedFromAssigned
    /\ resp.status_code = 200
    /\ Len(resp.stops) = 2
    /\ Len(orders) = 3
    /\ DOMAIN locations # {}
    /\ DOMAIN failures # {}

\* A request answered with an error, with every store holding something.
RefusedWithStoresFilled ==
    /\ DerivedFromAssigned
    /\ resp.status_code = 400
    /\ resp.geocode_calls # <<>>
    /\ Len(orders) = 3
    /\ DOMAIN locations # {}
    /\ DOMAIN failures # {}

----------------------------------------------------------------------------
(* Seats and invitations (SpecBilling) *)

BillingTypeOK ==
    /\ billing.backend \in BillingBackends
    /\ Len(billing.invitations) <= MaxInvitations
    /\ Len(billing.flights) <= MaxConcurrent

\* A create_invitation request that passed the role gate has been answered.
CreateAnswered ==
    billing.answer.call = "create_invitation" /\ billing.answer.status_code # 403

InvitedRole == billing.answer.args.payload.role

\* Active users plus pending invitations of the role, as calculate_seat_usage
\* gave them to the handler, and the seat limit of the subscription it read.
ReservedAsRead ==
    IF InvitedRole = ROLE_DISPATCHER
    THEN billing.answer.read.usage.dispatcher_active
             + billing.answer.read.usage.dispatcher_pending
    ELSE billing.answer.read.usage.driver_active
             + billing.answer.read.usage.driver_pending

LimitAsRead ==
    IF InvitedRole = ROLE_DISPATCHER
    THEN billing.answer.read.subscription.dispatcher_seat_limit
    ELSE billing.answer.read.subscription.driver_seat_limit

SeatLimitDetail ==
    IF InvitedRole = ROLE_DISPATCHER THEN "Dispatcher seat limit reached"
    ELSE "Driver seat limit reached"

\* The accepted request has stored one new pending invitation and nothing
\* else.
StoredOnePending ==
    /\ Len(billing.answer.after.invitations) = Len(billing.answer.before.invitations) + 1
    /\ \A k \in 1..Len(billing.answer.before.invitations) :
           billing.answer.after.invitations[k] = billing.answer.before.invitations[k]
    /\ billing.answer.after.invitations[Len(billing.answer.after.invitations)]
           = new_invitation(billing.answer.user.org_id,
                            Len(billing.answer.after.invitations),
                            billing.answer.args.payload.user_id, InvitedRole)
    /\ billing.answer.after.users = billing.answer.before.users

\* C22 as stated: creation succeeds only when active + pending of the role is
\* below the seat limit; otherwise the answer is the seat-limit conflict and
\* nothing is stored.
C22_SeatLimitConflictWheneverFull ==
    CreateAnswered =>
        /\ billing.answer.status_code = 200 => ReservedAsRead < LimitAsRead
        /\ ReservedAsRead >= LimitAsRead =>
               /\ billing.answer.status_code = 409
               /\ billing.answer.detail = SeatLimitDetail
               /\ billing.answer.after = billing.answer.before

\* C22: creation succeeds only when active + pending of the role, as the
\* handler counted them, is below the seat limit, and then stores one pending
\* invitation; otherwise the answer is 409 and nothing is stored, the detail
\* being the seat-limit conflict unless the user already has a pending
\* invitation for the role, which is reported instead.
C22_CreateOnlyBelowSeatLimit ==
    CreateAnswered =>
        /\ billing.answer.status_code = 200 =>
               ReservedAsRead < LimitAsRead /\ StoredOnePending
        /\ ReservedAsRead >= LimitAsRead =>
               /\ billing.answer.status_code = 409
               /\ billing.answer.after = billing.answer.before
               /\ billing.answer.detail =
                      IF billing.answer.read.existing # None
                      THEN "Pending invitation already exists for this user and role"
                      ELSE SeatLimitDetail

\* Two Dispatcher seats, one held by an active user and one by a pending
\* invitation: the invitation of another Dispatcher is refused.
C22_Witness ==
    /\ CreateAnswered
    /\ InvitedRole = ROLE_DISPATCHER
    /\ LimitAsRead = 2
    /\ billing.answer.read.usage.dispatcher_active = 1
    /\ billing.answer.read.usage.dispatcher_pending = 1
    /\ billing.answer.read.existing = None
    /\ billing.answer.status_code = 409
    /\ billing.answer.detail = "Dispatcher seat limit reached"

\* The last free seat is taken by an accepted request.
LastSeatTaken ==
    /\ CreateAnswered
    /\ billing.answer.status_code = 200
    /\ ReservedAsRead + 1 = LimitAsRead

\* C29: the status of a stored invitation changes only from Pending, and
\* then to Accepted or to Cancelled.
C29_InvitationStatusMoves ==
    [][\A k \in 1..Len(billing.invitations) :
          billing'.invitations[k].status # billing.invitations[k].status =>
              /\ billing.invitations[k].status = "Pending"
              /\ billing'.invitations[k].status \in {"Accepted", "Cancelled"}]_vars

\* Over the in-memory stores the status changes only from Pending.
StatusMovesInMemory ==
    [][billing.backend = "in-memory" =>
          \A k \in 1..Len(billing.invitations) :
              billing'.invitations[k].status # billing.invitations[k].status =>
                  /\ billing.invitations[k].status = "Pending"
                  /\ billing'.invitations[k].status \in {"Accepted", "Cancelled"}]_vars

\* Activating or cancelling an invitation that the handler reads as not
\* pending is refused with 409 and changes nothing, over either backend.
NonPendingRefused ==
    (/\ billing.answer.call \in {"activate_invitation", "cancel_invitation"}
     /\ billing.answer.read.invitation # None
     /\ billing.answer.read.invitation[1].status # "Pending") =>
        /\ billing.answer.status_code = 409
        /\ billing.answer.after = billing.answer.before

\* Active users plus pending invitations of the role in the stores, and the
\* seat limit there.
ReservedSeats(store, org_id, role) ==
    Cardinality(ActiveWithRole(store, org_id, role))
        + Cardinality(PendingWithRole(store, org_id, role))

SeatLimit(store, org_id, role) ==
    IF role = ROLE_DISPATCHER
    THEN get_or_default_subscription(store, org_id).dispatcher_seat_limit
    ELSE get_or_default_subscription(store, org_id).driver_seat_limit

\* C30: when a create_invitation request has succeeded, whatever other
\* requests were in progress beside it, active + pending of its role is
\* within the seat limit.
C30_ConcurrentCreationsRespectLimit ==
    (billing.answer.call = "create_invitation" /\ billing.answer.status_code = 200) =>
        ReservedSeats(billing.answer.after, billing.answer.user.org_id, InvitedRole)
            <= SeatLimit(billing.answer.after, billing.answer.user.org_id, InvitedRole)

\* Over the in-memory stores active + pending stays within the seat limit.
SeatsRespectedInMemory ==
    billing.backend = "in-memory" =>
        \A role \in SeatRole :
            ReservedSeats(StoresOf(billing), "org-1", role)
                <= SeatLimit(StoresOf(billing), "org-1", role)

====
